---- MODULE Spec2Model ----
(***************************************************************************)
(* Incremental State Transfer (galera/src/ist.cpp), PXC build.             *)
(*                                                                         *)
(* Spec        the Receiver: the control thread (prepare, ready,           *)
(*             finished/interrupt) against the receive thread              *)
(*             (Receiver::run) and an arbitrary peer on the connection.    *)
(* SenderSpec  Sender::send against the write-set cache.                   *)
(* AsyncSpec   AsyncSenderMap and run_async_sender.                        *)
(* SessionSpec a Sender and a Receiver on one connection.                  *)
(* QueueSpec   gcomm::FairSendQueue (gcomm/src/fair_send_queue.hpp).       *)
(* MemSpec     gcache::MemStore as gcache/tests/gcache_mem_test.cpp uses   *)
(*             it.                                                         *)
(* PcSpec      gcomm PCMessage (gcomm/src/pc_message.hpp): construction,   *)
(*             write and read.                                             *)
(***************************************************************************)
EXTENDS Integers, Sequences, FiniteSets

(* ------------------------------ bounds -------------------------------- *)

\* largest global seqno of the model
MaxSeq == 3
\* data frames a peer sends in one session
MaxFrames == 2
\* entries of one cache batch (1024 in the code, scaled down)
MaxBatch == 2
\* AsyncSender objects the supervisor creates
MaxSenders == 2
\* segment ids of the send queue are 0..MaxSegment
MaxSegment == 2
\* push_back calls on the send queue
MaxPushes == 4
\* Datagram::len() is in 0..MaxDgLen
MaxDgLen == 1
\* buffers the MemStore hands out
MaxBufs == 3
\* sizeof(gcache::BufferHeader), scaled down
bh_size == 2
\* entries of the instance map of a PCMessage
MaxInsts == 2

(* ----------------------------- constants ------------------------------ *)

WSREP_SEQNO_UNDEFINED == -1
EINTR == 4
ENOMEM == 12
EINVAL == 22
EPROTO == 71
ECONNRESET == 104
\* seqno_g of a buffer that has no seqno
SEQNO_NONE == 0
\* the NULL a failed malloc returns
NullPtr == 0
\* the size of the store of the test
mem_size == 3 + 2 * bh_size
\* enum PCMessage::Type
T_NONE == 0
T_STATE == 1
T_INSTALL == 2
T_USER == 3
\* the number of values of uint16_t
TwoTo16 == 65536

GCS_ACT_WRITESET == "WRITESET"
GCS_ACT_CCHANGE == "CCHANGE"
\* the action type that denotes EOF
GCS_ACT_UNKNOWN == "UNKNOWN"
ActTypes == {GCS_ACT_WRITESET, GCS_ACT_CCHANGE}

Seqnos == 1..MaxSeq
\* last_seqno values given to prepare(): 0 stands for "nothing expected"
LastSeqnos == 0..MaxSeq

(* --------------------------- Receiver state --------------------------- *)

VARIABLES
    \* Receiver members
    first_seqno_, last_seqno_, current_seqno_, error_code_,
    running_, interrupted_, ready_,
    prepared,        \* recv_addr_ != ""
    acceptor_,       \* "closed" | "listening"
    \* control thread
    cpc,             \* "idle" | "prepare" | "interrupt" | "signal" | "join"
    loopback,        \* interrupt()'s connection: "none" | "pending" | "accepted" | "failed"
    finished_ret,    \* << >>, or << v >> once finished() returned v in the session
    \* receive thread (locals of run())
    rpc,             \* "none" | "accept" | "handshake" | "wait" | "stream" | "err" | "end" | "done" | "crashed"
    conn,            \* peer of the accepted connection: "none" | "donor" | "loopback"
    socket_open,     \* the accepted socket of run() is open
    ec, progress, preload_started,
    seqno_unlocks,   \* gcache_.seqno_unlock() calls of the session
    \* handler (EventHandler) call log of the session
    dispatched,      \* ist_trx / ist_cc calls
    ist_end_log,     \* ist_end calls (their error codes)
    \* history of the session
    ready_arg, fin_at, nframes, seq_violation, woke_interrupted,
    intr_at_end

rvars == << first_seqno_, last_seqno_, current_seqno_, error_code_,
            running_, interrupted_, ready_, prepared, acceptor_,
            cpc, loopback, finished_ret,
            rpc, conn, socket_open, ec, progress, preload_started,
            seqno_unlocks, dispatched, ist_end_log,
            ready_arg, fin_at, nframes, seq_violation,
            woke_interrupted, intr_at_end >>

(* ---------------------------- Sender state ---------------------------- *)

VARIABLES
    spc,             \* "idle" | "handshake" | "respond" | "ctrl" | "decide" | "read" | "batch" | "returned" | "threw"
    s_hs,            \* the handshake calls send() has made, in order
    ctrl,            \* the control code recv_ctrl returned
    s_first, s_last, s_preload_start,   \* arguments of send(); first advances
    s_ver40,         \* version_ >= VER40
    buf_vec_size, n_read, s_i,
    s_errno,         \* errno of the exception send() threw
    cache,           \* seqnos the cache holds
    wire,            \* frames written to the stream
    s_arg_first      \* the first argument send() was called with

svars == << spc, s_first, s_last, s_preload_start, s_ver40, buf_vec_size,
            n_read, s_i, s_errno, cache, wire, s_arg_first, s_hs, ctrl >>

(* ----------------------- AsyncSenderMap state ------------------------- *)

VARIABLES
    senders_,        \* the set of AsyncSender* in the map
    monitor_,        \* holder of monitor_: Free, Sup or Task(a)
    created,         \* AsyncSender a was allocated by run()
    as_last,         \* as->last()
    deleted,         \* number of delete expressions executed on a
    deleted_by,      \* "none" | "task" | "cancel" | "run"
    tpc,             \* run_async_sender(a): "none" | "send" | "remove" | "erase" | "detach" | "delete" | "done"
    join_seqno,      \* join_seqno of the task
    aclosed,         \* as->cancel() closed the socket of a
    detached, joined,\* the thread handle as->thread_ was detached / joined
    uaf,             \* an AsyncSender was used after its delete
    apc,             \* cancel(): "idle" | "loop" | "join" | "enter" | "delete"
    acur,            \* the local as of cancel() (0: none)
    at_start         \* senders_ when cancel() was entered

avars == << senders_, monitor_, created, as_last, deleted, deleted_by, tpc,
            join_seqno, aclosed, detached, joined, uaf, apc, acur, at_start >>

(* ------------------------ FairSendQueue state ------------------------- *)

VARIABLES
    queue_,                \* std::map<int, std::deque<Datagram>>: segment -> queue
    current_segment_,
    last_pushed_segment_,
    queued_bytes_,
    q_pushed, q_popped,    \* push_back and pop_front calls made
    q_last_pop,            \* segment of the datagram the last pop_front removed
    q_asserts,             \* lines of the assertions that failed
    q_in, q_out            \* per segment: the ids pushed, the ids popped

qvars == << queue_, current_segment_, last_pushed_segment_, queued_bytes_,
            q_pushed, q_popped, q_last_pop, q_asserts, q_in, q_out >>

(* --------------------------- MemStore state --------------------------- *)

VARIABLES
    ms_bufs,         \* the buffer headers: size, seqno_g, released, ...
    ms_size,         \* size_: bytes the store has handed out
    ms_next,         \* the next buffer id malloc hands out
    ms_ret,          \* what the last malloc or realloc returned
    ms_op            \* the last call

mvars == << ms_bufs, ms_size, ms_next, ms_ret, ms_op >>

(* --------------------------- PCMessage state -------------------------- *)

VARIABLES
    pm_pc,           \* "none" | "built" | "written" | "read"
    pm_msg,          \* the message m: version, type, seq, instance map
    pm_arg_seq,      \* the seq the constructor of m was called with
    pm_buf, pm_buflen, pm_offset,   \* the arguments of write() and read()
    pm_woff,         \* what m.write() returned
    pm_got,          \* the message read() filled
    pm_roff          \* what read() returned

pvars == << pm_pc, pm_msg, pm_arg_seq, pm_buf, pm_buflen, pm_offset,
            pm_woff, pm_got, pm_roff >>

vars == << rvars, svars, avars, qvars, mvars, pvars >>

(* ------------------- Receiver::run, pure steps ------------------------ *)

\* the first data frame of a session must not start after first_seqno_
FirstFrameRejected(seqno_g, first) == seqno_g > first

\* current_seqno_ after a data frame: initialized by the first, then ++
AdvanceCurrent(cur, seqno_g) ==
    IF cur = WSREP_SEQNO_UNDEFINED THEN seqno_g ELSE cur + 1

SeqnoMismatch_NoCheck(seqno_g, cur) == FALSE
\* the frame is not the one current_seqno_ expects
SeqnoMismatch(seqno_g, cur) == seqno_g # cur

MustApply_Strict(cur, first) == cur > first
\* must_apply of a dispatched frame
MustApply(cur, first) == cur >= first

WaitOver_NoWait(ready, interrupted) == TRUE
\* the SST rendezvous: while (ready_ == false && interrupted_ == false) wait
WaitOver(ready, interrupted) == ~(ready = FALSE /\ interrupted = FALSE)

AfterWait_IgnoreInterrupt(interrupted) == "stream"
\* where run() continues after the rendezvous: goto err when interrupted
AfterWait(interrupted) == IF interrupted = TRUE THEN "err" ELSE "stream"

FinalEc_NoOverride(e, last, cur) == e
FinalEc_AnyError(e, last, cur) ==
    IF last > 0 /\ e # 0 /\ e # EINTR /\ cur < last THEN EPROTO ELSE e
\* the short-stream override at the err label
FinalEc(e, last, cur) ==
    IF last > 0 /\ e # EINTR /\ cur < last THEN EPROTO ELSE e

StoredErrorCode_Always(e, old) == e
\* what ends up in error_code_: EINTR is not stored
StoredErrorCode(e, old) == IF e # EINTR THEN e ELSE old

\* progress->finish() after the loop: progress is NULL when no data frame was
\* read, and the call through it is undefined (the task dies or goes on)
FinishOutcomes(prog) == IF prog THEN {"err"} ELSE {"err", "crashed"}

\* Proto::recv_handshake_response: a C_EOF control frame in place of the
\* response (what interrupt() sends) raises EINTR; a donor's handshake fails
\* with a transport or protocol error
HandshakeErrnos(peer) ==
    IF peer = "loopback" THEN {EINTR} ELSE {ECONNRESET}

\* errors of recv_ordered: an asio::system_error of the transport
StreamErrnos == {ECONNRESET}

\* errno of a gu::Exception thrown by unserialize or by the handler
HandlerErrnos == {ENOMEM}

\* the receive thread holds mutex_ from the err label to its return
MutexFree == rpc # "end"

UnlocksAtEnd_None(n) == n
\* gcache_.seqno_unlock() at the err label
UnlocksAtEnd(n) == n + 1

RunningAtEnd_Keep(r) == r
\* running_ = false at the err label
RunningAtEnd(r) == FALSE

InFinished == cpc \in {"interrupt", "signal", "join"}
Alive == rpc # "crashed"

(* --------------------------- Receiver: Init --------------------------- *)

RInit ==
    /\ first_seqno_ = WSREP_SEQNO_UNDEFINED
    /\ last_seqno_ = WSREP_SEQNO_UNDEFINED
    /\ current_seqno_ = WSREP_SEQNO_UNDEFINED
    /\ error_code_ = 0
    /\ running_ = FALSE
    /\ interrupted_ = FALSE
    /\ ready_ = FALSE
    /\ prepared = FALSE
    /\ acceptor_ = "closed"
    /\ cpc = "idle"
    /\ loopback = "none"
    /\ finished_ret = << >>
    /\ rpc = "none"
    /\ conn = "none"
    /\ socket_open = FALSE
    /\ ec = 0
    /\ progress = FALSE
    /\ preload_started = FALSE
    /\ seqno_unlocks = 0
    /\ dispatched = << >>
    /\ ist_end_log = << >>
    /\ ready_arg = 0
    /\ fin_at = ""
    /\ nframes = 0
    /\ seq_violation = FALSE
    /\ woke_interrupted = FALSE
    /\ intr_at_end = FALSE

(* ------------------------ control thread ------------------------------ *)

\* prepare() up to and including gu_thread_create
Prepare(first, last) ==
    /\ Alive /\ cpc = "idle" /\ ~prepared /\ rpc = "none"
    /\ ready_' = FALSE
    /\ prepared' = TRUE
    /\ acceptor_' = "listening"
    /\ first_seqno_' = first
    /\ last_seqno_' = last
    /\ rpc' = "accept"
    /\ conn' = "none" /\ socket_open' = FALSE
    /\ ec' = 0 /\ progress' = FALSE
    /\ preload_started' = FALSE /\ seqno_unlocks' = 0
    /\ loopback' = "none"
    /\ cpc' = "prepare"
    /\ dispatched' = << >> /\ ist_end_log' = << >>
    /\ ready_arg' = 0 /\ fin_at' = "" /\ nframes' = 0
    /\ seq_violation' = FALSE /\ woke_interrupted' = FALSE
    /\ intr_at_end' = FALSE
    /\ finished_ret' = << >>
    /\ UNCHANGED << current_seqno_, error_code_, running_, interrupted_ >>
    /\ UNCHANGED << svars, avars, qvars, mvars, pvars >>

\* prepare() when the listener cannot be opened: recv_addr_ = "" and throw
PrepareFail ==
    /\ Alive /\ cpc = "idle" /\ ~prepared /\ rpc = "none"
    /\ ready_' = FALSE
    /\ UNCHANGED << first_seqno_, last_seqno_, current_seqno_, error_code_,
                    running_, interrupted_, prepared, acceptor_, cpc,
                    loopback, finished_ret, rpc, conn, socket_open, ec, progress,
                    preload_started, seqno_unlocks, dispatched, ist_end_log,
                    ready_arg, fin_at, nframes, seq_violation,
                    woke_interrupted, intr_at_end >>
    /\ UNCHANGED << svars, avars, qvars, mvars, pvars >>

\* prepare(), after the thread exists: running_ = true
PrepareRunning ==
    /\ Alive /\ cpc = "prepare"
    /\ running_' = TRUE
    /\ cpc' = "idle"
    /\ UNCHANGED << first_seqno_, last_seqno_, current_seqno_, error_code_,
                    interrupted_, ready_, prepared, acceptor_,
                    loopback, finished_ret, rpc, conn, socket_open, ec, progress,
                    preload_started, seqno_unlocks, dispatched, ist_end_log,
                    ready_arg, fin_at, nframes, seq_violation,
                    woke_interrupted, intr_at_end >>
    /\ UNCHANGED << svars, avars, qvars, mvars, pvars >>

\* ready(first), called at most once per session
Ready(first) ==
    /\ Alive /\ cpc = "idle" /\ prepared /\ ready_arg = 0
    /\ MutexFree
    /\ first_seqno_' = first
    /\ ready_' = TRUE
    /\ ready_arg' = first
    /\ UNCHANGED << last_seqno_, current_seqno_, error_code_,
                    running_, interrupted_, prepared, acceptor_, cpc,
                    loopback, finished_ret, rpc, conn, socket_open, ec, progress,
                    preload_started, seqno_unlocks, dispatched, ist_end_log,
                    fin_at, nframes, seq_violation,
                    woke_interrupted, intr_at_end >>
    /\ UNCHANGED << svars, avars, qvars, mvars, pvars >>

\* finished() on a Receiver that is not prepared
FinishedNotPrepared ==
    /\ Alive /\ cpc = "idle" /\ ~prepared
    /\ finished_ret' = << current_seqno_ >>
    /\ UNCHANGED << first_seqno_, last_seqno_, current_seqno_, error_code_,
                    running_, interrupted_, ready_, prepared, acceptor_, cpc,
                    loopback, rpc, conn, socket_open, ec, progress,
                    preload_started, seqno_unlocks, dispatched, ist_end_log,
                    ready_arg, fin_at, nframes, seq_violation,
                    woke_interrupted, intr_at_end >>
    /\ UNCHANGED << svars, avars, qvars, mvars, pvars >>

\* finished() -> interrupt(): connect to the own listener
InterruptConnect ==
    /\ Alive /\ cpc = "idle" /\ prepared
    /\ fin_at' = rpc
    /\ IF acceptor_ = "listening"
       THEN loopback' = "pending" /\ cpc' = "interrupt"
       ELSE loopback' = "failed" /\ cpc' = "signal"
    /\ UNCHANGED << first_seqno_, last_seqno_, current_seqno_, error_code_,
                    running_, interrupted_, ready_, prepared, acceptor_,
                    finished_ret, rpc, conn, socket_open, ec, progress,
                    preload_started, seqno_unlocks, dispatched, ist_end_log,
                    ready_arg, nframes, seq_violation,
                    woke_interrupted, intr_at_end >>
    /\ UNCHANGED << svars, avars, qvars, mvars, pvars >>

\* interrupt() returns: its connection was dropped with the listener, or the
\* receive task took it, read C_EOF and closed its socket
InterruptReturn ==
    /\ Alive /\ cpc = "interrupt"
    /\ \/ loopback = "failed"
       \/ loopback = "accepted" /\ rpc \in {"end", "done"}
    /\ cpc' = "signal"
    /\ UNCHANGED << first_seqno_, last_seqno_, current_seqno_, error_code_,
                    running_, interrupted_, ready_, prepared, acceptor_,
                    loopback, finished_ret, rpc, conn, socket_open, ec, progress,
                    preload_started, seqno_unlocks, dispatched, ist_end_log,
                    ready_arg, fin_at, nframes, seq_violation,
                    woke_interrupted, intr_at_end >>
    /\ UNCHANGED << svars, avars, qvars, mvars, pvars >>

\* finished(): if (!ready_) { lock; interrupted_ = true; cond_.signal(); }
FinishedSignal ==
    /\ Alive /\ cpc = "signal"
    /\ (ready_ \/ MutexFree)
    /\ interrupted_' = IF ~ready_ THEN TRUE ELSE interrupted_
    /\ cpc' = "join"
    /\ UNCHANGED << first_seqno_, last_seqno_, current_seqno_, error_code_,
                    running_, ready_, prepared, acceptor_,
                    loopback, finished_ret, rpc, conn, socket_open, ec, progress,
                    preload_started, seqno_unlocks, dispatched, ist_end_log,
                    ready_arg, fin_at, nframes, seq_violation,
                    woke_interrupted, intr_at_end >>
    /\ UNCHANGED << svars, avars, qvars, mvars, pvars >>

\* finished(): join the thread, close the listener, running_ = false,
\* recv_addr_ = "", return current_seqno_
FinishedJoin ==
    /\ Alive /\ cpc = "join" /\ rpc = "done"
    /\ rpc' = "none"
    /\ acceptor_' = "closed"
    /\ running_' = FALSE
    /\ prepared' = FALSE
    /\ finished_ret' = << current_seqno_ >>
    /\ cpc' = "idle"
    /\ UNCHANGED << first_seqno_, last_seqno_, current_seqno_, error_code_,
                    interrupted_, ready_, loopback, conn, socket_open, ec, progress,
                    preload_started, seqno_unlocks, dispatched, ist_end_log,
                    ready_arg, fin_at, nframes, seq_violation,
                    woke_interrupted, intr_at_end >>
    /\ UNCHANGED << svars, avars, qvars, mvars, pvars >>

(* ------------------------ receive thread ------------------------------ *)

\* accept() returns the donor's connection; the listener is closed, which
\* drops a connection of interrupt() still waiting in its backlog
AcceptDonor ==
    /\ rpc = "accept"
    /\ conn' = "donor"
    /\ socket_open' = TRUE
    /\ acceptor_' = "closed"
    /\ loopback' = IF loopback = "pending" THEN "failed" ELSE loopback
    /\ rpc' = "handshake"
    /\ UNCHANGED << first_seqno_, last_seqno_, current_seqno_, error_code_,
                    running_, interrupted_, ready_, prepared, cpc,
                    finished_ret, ec, progress,
                    preload_started, seqno_unlocks, dispatched, ist_end_log,
                    ready_arg, fin_at, nframes, seq_violation,
                    woke_interrupted, intr_at_end >>
    /\ UNCHANGED << svars, avars, qvars, mvars, pvars >>

\* accept() returns the connection of interrupt()
AcceptLoopback ==
    /\ rpc = "accept" /\ loopback = "pending"
    /\ conn' = "loopback"
    /\ socket_open' = TRUE
    /\ acceptor_' = "closed"
    /\ loopback' = "accepted"
    /\ rpc' = "handshake"
    /\ UNCHANGED << first_seqno_, last_seqno_, current_seqno_, error_code_,
                    running_, interrupted_, ready_, prepared, cpc,
                    finished_ret, ec, progress,
                    preload_started, seqno_unlocks, dispatched, ist_end_log,
                    ready_arg, fin_at, nframes, seq_violation,
                    woke_interrupted, intr_at_end >>
    /\ UNCHANGED << svars, avars, qvars, mvars, pvars >>

\* accept() or the TLS handshake fails: gu_throw_error outside of any try
\* block, the exception leaves run() and the thread function
AcceptFail ==
    /\ rpc = "accept"
    /\ rpc' = "crashed"
    /\ UNCHANGED << first_seqno_, last_seqno_, current_seqno_, error_code_,
                    running_, interrupted_, ready_, prepared, acceptor_, cpc,
                    loopback, finished_ret, conn, socket_open, ec, progress,
                    preload_started, seqno_unlocks, dispatched, ist_end_log,
                    ready_arg, fin_at, nframes, seq_violation,
                    woke_interrupted, intr_at_end >>
    /\ UNCHANGED << svars, avars, qvars, mvars, pvars >>

\* send_handshake, recv_handshake_response, send_ctrl(C_OK) with the donor
HandshakeOk ==
    /\ rpc = "handshake" /\ conn = "donor"
    /\ rpc' = "wait"
    /\ UNCHANGED << first_seqno_, last_seqno_, current_seqno_, error_code_,
                    running_, interrupted_, ready_, prepared, acceptor_, cpc,
                    loopback, finished_ret, conn, socket_open, ec, progress,
                    preload_started, seqno_unlocks, dispatched, ist_end_log,
                    ready_arg, fin_at, nframes, seq_violation,
                    woke_interrupted, intr_at_end >>
    /\ UNCHANGED << svars, avars, qvars, mvars, pvars >>

\* the handshake throws: caught at the end of run(), ec = errno
HandshakeFail(e) ==
    /\ rpc = "handshake"
    /\ e \in HandshakeErrnos(conn)
    /\ ec' = e
    /\ rpc' = "err"
    /\ UNCHANGED << first_seqno_, last_seqno_, current_seqno_, error_code_,
                    running_, interrupted_, ready_, prepared, acceptor_, cpc,
                    loopback, finished_ret, conn, socket_open, progress,
                    preload_started, seqno_unlocks, dispatched, ist_end_log,
                    ready_arg, fin_at, nframes, seq_violation,
                    woke_interrupted, intr_at_end >>
    /\ UNCHANGED << svars, avars, qvars, mvars, pvars >>

\* the SST rendezvous under mutex_, then current_seqno_ = UNDEFINED
WaitSST ==
    /\ rpc = "wait"
    /\ WaitOver(ready_, interrupted_)
    /\ rpc' = AfterWait(interrupted_)
    /\ IF rpc' = "err"
       THEN /\ woke_interrupted' = TRUE
            /\ UNCHANGED << current_seqno_, preload_started >>
       ELSE /\ current_seqno_' = WSREP_SEQNO_UNDEFINED
            /\ preload_started' = FALSE
            /\ UNCHANGED woke_interrupted
    /\ UNCHANGED << first_seqno_, last_seqno_, error_code_,
                    running_, interrupted_, ready_, prepared, acceptor_, cpc,
                    loopback, finished_ret, conn, socket_open, ec, progress,
                    seqno_unlocks, dispatched, ist_end_log,
                    ready_arg, fin_at, nframes, seq_violation,
                    intr_at_end >>
    /\ UNCHANGED << svars, avars, qvars, mvars, pvars >>

\* recv_ordered returns GCS_ACT_UNKNOWN: break, then progress->finish()
RecvEof ==
    /\ rpc = "stream"
    /\ \E o \in FinishOutcomes(progress) : rpc' = o
    /\ UNCHANGED << first_seqno_, last_seqno_, current_seqno_, error_code_,
                    running_, interrupted_, ready_, prepared, acceptor_, cpc,
                    loopback, finished_ret, conn, socket_open, ec, progress,
                    preload_started, seqno_unlocks, dispatched, ist_end_log,
                    ready_arg, fin_at, nframes, seq_violation,
                    woke_interrupted, intr_at_end >>
    /\ UNCHANGED << svars, avars, qvars, mvars, pvars >>

\* recv_ordered throws
StreamError(e) ==
    /\ rpc = "stream"
    /\ e \in StreamErrnos
    /\ ec' = e
    /\ rpc' = "err"
    /\ UNCHANGED << first_seqno_, last_seqno_, current_seqno_, error_code_,
                    running_, interrupted_, ready_, prepared, acceptor_, cpc,
                    loopback, finished_ret, conn, socket_open, progress,
                    preload_started, seqno_unlocks, dispatched, ist_end_log,
                    ready_arg, fin_at, nframes, seq_violation,
                    woke_interrupted, intr_at_end >>
    /\ UNCHANGED << svars, avars, qvars, mvars, pvars >>

Call_NoPreload(seqno_g, type, preload) ==
    [ seqno_g |-> seqno_g, type |-> type,
      must_apply |-> MustApply(current_seqno_', first_seqno_),
      preload |-> FALSE ]
\* the handler call of one frame
Call(seqno_g, type, preload) ==
    [ seqno_g |-> seqno_g, type |-> type,
      must_apply |-> MustApply(current_seqno_', first_seqno_),
      preload |-> preload ]

\* recv_ordered returns a data frame: one iteration of the loop.
\* how: "ok" the handler returns, "unserialize" TrxHandleSlave::unserialize
\* throws before the call, "handler" the handler throws
RecvOrdered(seqno_g, type, preload, how) ==
    /\ rpc = "stream"
    /\ nframes < MaxFrames
    /\ nframes' = nframes + 1
    /\ IF current_seqno_ = WSREP_SEQNO_UNDEFINED
          /\ FirstFrameRejected(seqno_g, first_seqno_)
       THEN /\ ec' = EINVAL
            /\ rpc' = "err"
            /\ seq_violation' = TRUE
            /\ how = "ok"
            /\ UNCHANGED << current_seqno_, progress, preload_started,
                            dispatched >>
       ELSE /\ current_seqno_' = AdvanceCurrent(current_seqno_, seqno_g)
            /\ progress' = TRUE
            /\ IF SeqnoMismatch(seqno_g, current_seqno_')
               THEN /\ ec' = EINVAL
                    /\ rpc' = "err"
                    /\ seq_violation' = TRUE
                    /\ how = "ok"
                    /\ UNCHANGED << preload_started, dispatched >>
               ELSE /\ preload_started' = (preload_started \/ preload)
                    /\ UNCHANGED seq_violation
                    /\ CASE how = "ok" ->
                              /\ dispatched' = Append(dispatched,
                                       Call(seqno_g, type, preload))
                              /\ UNCHANGED << ec, rpc >>
                         [] how = "unserialize" ->
                              /\ type = GCS_ACT_WRITESET
                              /\ \E e \in HandlerErrnos : ec' = e
                              /\ rpc' = "err"
                              /\ UNCHANGED dispatched
                         [] how = "handler" ->
                              /\ dispatched' = Append(dispatched,
                                       Call(seqno_g, type, preload))
                              /\ \E e \in HandlerErrnos : ec' = e
                              /\ rpc' = "err"
    /\ UNCHANGED << first_seqno_, last_seqno_, error_code_,
                    running_, interrupted_, ready_, prepared, acceptor_, cpc,
                    loopback, finished_ret, conn, socket_open,
                    seqno_unlocks, ist_end_log,
                    ready_arg, fin_at, woke_interrupted,
                    intr_at_end >>
    /\ UNCHANGED << svars, avars, qvars, mvars, pvars >>

\* the err label under mutex_: seqno_unlock, delete progress, close the
\* socket, running_ = false, the short-stream override, error_code_
Terminate ==
    /\ rpc = "err"
    /\ seqno_unlocks' = UnlocksAtEnd(seqno_unlocks)
    /\ progress' = FALSE
    /\ socket_open' = FALSE
    /\ running_' = RunningAtEnd(running_)
    /\ ec' = FinalEc(ec, last_seqno_, current_seqno_)
    /\ error_code_' = StoredErrorCode(ec', error_code_)
    /\ intr_at_end' = InFinished
    /\ rpc' = "end"
    /\ UNCHANGED << first_seqno_, last_seqno_, current_seqno_,
                    interrupted_, ready_, prepared, acceptor_, cpc,
                    loopback, finished_ret, conn,
                    preload_started, dispatched, ist_end_log,
                    ready_arg, fin_at, nframes, seq_violation,
                    woke_interrupted >>
    /\ UNCHANGED << svars, avars, qvars, mvars, pvars >>

\* handler_.ist_end(ec), still under mutex_, and the return of run()
IstEnd ==
    /\ rpc = "end"
    /\ ist_end_log' = Append(ist_end_log, ec)
    /\ rpc' = "done"
    /\ UNCHANGED << first_seqno_, last_seqno_, current_seqno_, error_code_,
                    running_, interrupted_, ready_, prepared, acceptor_, cpc,
                    loopback, finished_ret, conn, socket_open, ec, progress,
                    preload_started, seqno_unlocks, dispatched,
                    ready_arg, fin_at, nframes, seq_violation,
                    woke_interrupted, intr_at_end >>
    /\ UNCHANGED << svars, avars, qvars, mvars, pvars >>

(* -------------------------- Receiver: Next ---------------------------- *)

RNext ==
    \/ \E first \in Seqnos, last \in LastSeqnos : Prepare(first, last)
    \/ PrepareFail
    \/ PrepareRunning
    \/ \E first \in Seqnos : Ready(first)
    \/ FinishedNotPrepared
    \/ InterruptConnect
    \/ InterruptReturn
    \/ FinishedSignal
    \/ FinishedJoin
    \/ AcceptDonor
    \/ AcceptLoopback
    \/ AcceptFail
    \/ HandshakeOk
    \/ \E e \in {EINTR, ECONNRESET} : HandshakeFail(e)
    \/ WaitSST
    \/ RecvEof
    \/ \E e \in StreamErrnos : StreamError(e)
    \/ \E s \in Seqnos, t \in ActTypes, p \in BOOLEAN,
          how \in {"ok", "unserialize", "handler"} : RecvOrdered(s, t, p, how)
    \/ Terminate
    \/ IstEnd

\* current_segment_ and last_pushed_segment_ of a queue that holds nothing
NoSegment == -1
\* a FairSendQueue after construction
QInit ==
    /\ queue_ = << >>
    /\ current_segment_ = NoSegment
    /\ last_pushed_segment_ = NoSegment
    /\ queued_bytes_ = 0
    /\ q_pushed = 0 /\ q_popped = 0
    /\ q_last_pop = NoSegment
    /\ q_asserts = {}
    /\ q_in = [ k \in 0..MaxSegment |-> << >> ]
    /\ q_out = [ k \in 0..MaxSegment |-> << >> ]

\* no PCMessage yet
PInit ==
    /\ pm_pc = "none"
    /\ pm_msg = [ version |-> -1, type |-> T_NONE, seq |-> 0,
                  has |-> FALSE, map |-> << >> ]
    /\ pm_arg_seq = 0
    /\ pm_buf = << >> /\ pm_buflen = 0 /\ pm_offset = 0
    /\ pm_woff = 0
    /\ pm_got = [ version |-> -1, type |-> T_NONE, seq |-> 0,
                  has |-> FALSE, map |-> << >> ]
    /\ pm_roff = 0

\* a MemStore after construction: no buffer
MInit ==
    /\ ms_bufs = [ b \in 1..MaxBufs |->
                     [ size |-> 0, seqno_g |-> SEQNO_NONE, released |-> FALSE,
                       freed |-> FALSE, discarded |-> FALSE, live |-> FALSE ] ]
    /\ ms_size = 0
    /\ ms_next = 1
    /\ ms_ret = NullPtr
    /\ ms_op = << >>

\* the AsyncSender objects (their addresses)
Ids == 1..MaxSenders
\* holders of monitor_
Free == [ who |-> "none", id |-> 0 ]
Sup == [ who |-> "sup", id |-> 0 ]
Task(a) == [ who |-> "task", id |-> a ]

\* AsyncSenderMap after construction: no sender, the monitor free
AIdle ==
    /\ senders_ = {}
    /\ monitor_ = Free
    /\ created = [ a \in Ids |-> FALSE ]
    /\ as_last = [ a \in Ids |-> 0 ]
    /\ deleted = [ a \in Ids |-> 0 ]
    /\ deleted_by = [ a \in Ids |-> "none" ]
    /\ tpc = [ a \in Ids |-> "none" ]
    /\ join_seqno = [ a \in Ids |-> 0 ]
    /\ aclosed = [ a \in Ids |-> FALSE ]
    /\ detached = [ a \in Ids |-> FALSE ]
    /\ joined = [ a \in Ids |-> FALSE ]
    /\ uaf = FALSE
    /\ apc = "idle"
    /\ acur = 0
    /\ at_start = {}

\* the Sender is not part of the Receiver's specification
SIdle ==
    /\ spc = "idle" /\ s_first = 0 /\ s_last = 0 /\ s_preload_start = 0
    /\ s_ver40 = TRUE /\ buf_vec_size = 0 /\ n_read = 0 /\ s_i = 0
    /\ s_errno = 0 /\ cache = {} /\ wire = << >> /\ s_arg_first = 0
    /\ s_hs = << >> /\ ctrl = 0

Init == RInit /\ SIdle /\ AIdle /\ QInit /\ MInit /\ PInit
Next == RNext
Spec == Init /\ [][Next]_vars

\* the threads are scheduled and a connected peer answers: the receive
\* thread takes a connection that waits in the backlog, the handshake ends
\* one way or the other, and a thread that can go on does; finished() runs
\* to its end
RFairness ==
    /\ WF_vars(AcceptLoopback)
    /\ WF_vars(HandshakeOk \/ \E e \in {EINTR, ECONNRESET} : HandshakeFail(e))
    /\ WF_vars(WaitSST)
    /\ WF_vars(Terminate)
    /\ WF_vars(IstEnd)
    /\ WF_vars(InterruptReturn)
    /\ WF_vars(FinishedSignal)
    /\ WF_vars(FinishedJoin)

FairSpec == Init /\ [][Next]_vars /\ RFairness

(* --------------------------- Sender::send ----------------------------- *)

Min(a, b) == IF a < b THEN a ELSE b

OrderedFrame(seqno_g, type, preload) ==
    [ kind |-> "ORDERED", seqno_g |-> seqno_g, type |-> type,
      preload |-> preload ]
\* the C_EOF control frame of send_eof
EofFrame == [ kind |-> "C_EOF", seqno_g |-> 0, type |-> GCS_ACT_UNKNOWN,
              preload |-> FALSE ]

NothingToSend_NoZero(first, last) == first > last
\* nothing to stream: EOF only
NothingToSend(first, last) == first > last \/ (first = 0 /\ last = 0)

\* size of the batch vector: min(last - first + 1, 1024)
BatchSize(first, last) == Min(last - first + 1, MaxBatch)

PreloadFlag_OnlyStart(preload_start, seqno_g) ==
    preload_start > 0 /\ seqno_g = preload_start
\* the preload flag of one buffer
PreloadFlag(preload_start, seqno_g) ==
    preload_start > 0 /\ seqno_g >= preload_start

AdvanceFirst_ByOne(first, n) == first + 1
\* first += n_read
AdvanceFirst(first, n) == first + n

\* GCache::seqno_get_buffers(vec, first): fills up to vec.size() contiguous
\* buffers starting at first and returns their number, 0 when the cache
\* does not hold first
GetBuffers(held, first, size) ==
    IF first \in held
    THEN { n \in 1..size : \A k \in 0..(n - 1) : (first + k) \in held }
    ELSE {0}

\* run_async_sender: join_seqno is last when send() returned and -errno
\* when it threw a gu::Exception
JoinSeqno(outcome, last, errno) ==
    IF outcome = "returned" THEN last ELSE -errno

SInit ==
    /\ spc = "handshake"
    /\ s_first \in 0..MaxSeq
    /\ s_last \in 0..MaxSeq
    /\ s_preload_start \in 0..MaxSeq
    /\ s_ver40 \in BOOLEAN
    /\ buf_vec_size = 0 /\ n_read = 0 /\ s_i = 0 /\ s_errno = 0
    /\ cache \in SUBSET Seqnos
    /\ wire = << >>
    /\ s_arg_first = s_first
    /\ s_hs = << >> /\ ctrl = 0

\* the handshake of send(), in the order of its calls
HandshakeOrder == << "recv_handshake", "send_handshake_response", "recv_ctrl" >>
\* control codes a peer can send: Ctrl::C_OK, Ctrl::C_EOF or an error
CtrlCodes == {-EPROTO, 0, 1}

CtrlFailed_Never(c) == FALSE
\* if (ctrl < 0) gu_throw_error(EPROTO)
CtrlFailed(c) == c < 0

\* send() throws: first > last below VER40, a message the protocol
\* rejects (EPROTO), or an asio::system_error of the transport
SendThrow(e) ==
    /\ \/ spc = "handshake" /\ s_first > s_last /\ ~s_ver40 /\ e = EINVAL
       \/ spc = "handshake" /\ ~(s_first > s_last /\ ~s_ver40)
                            /\ e \in {EPROTO, ECONNRESET}
       \/ spc \in {"respond", "ctrl"} /\ e \in {EPROTO, ECONNRESET}
       \/ spc \in {"decide", "batch"} /\ e = ECONNRESET
    /\ spc' = "threw"
    /\ s_errno' = e
    /\ UNCHANGED << s_first, s_last, s_preload_start, s_ver40, buf_vec_size,
                    n_read, s_i, cache, wire, s_arg_first, s_hs, ctrl >>
    /\ UNCHANGED << rvars, avars, qvars, mvars, pvars >>

\* p.recv_handshake(socket_)
SendRecvHandshake ==
    /\ spc = "handshake"
    /\ ~(s_first > s_last /\ ~s_ver40)
    /\ spc' = "respond"
    /\ s_hs' = Append(s_hs, "recv_handshake")
    /\ UNCHANGED << s_first, s_last, s_preload_start, s_ver40, buf_vec_size,
                    n_read, s_i, s_errno, cache, wire, s_arg_first, ctrl >>
    /\ UNCHANGED << rvars, avars, qvars, mvars, pvars >>

\* p.send_handshake_response(socket_)
SendHandshakeResponse ==
    /\ spc = "respond"
    /\ spc' = "ctrl"
    /\ s_hs' = Append(s_hs, "send_handshake_response")
    /\ UNCHANGED << s_first, s_last, s_preload_start, s_ver40, buf_vec_size,
                    n_read, s_i, s_errno, cache, wire, s_arg_first, ctrl >>
    /\ UNCHANGED << rvars, avars, qvars, mvars, pvars >>

\* ctrl = p.recv_ctrl(socket_); a negative code fails with EPROTO
SendRecvCtrl(c) ==
    /\ spc = "ctrl"
    /\ ctrl' = c
    /\ s_hs' = Append(s_hs, "recv_ctrl")
    /\ IF CtrlFailed(c)
       THEN spc' = "threw" /\ s_errno' = EPROTO
       ELSE spc' = "decide" /\ UNCHANGED s_errno
    /\ UNCHANGED << s_first, s_last, s_preload_start, s_ver40, buf_vec_size,
                    n_read, s_i, cache, wire, s_arg_first >>
    /\ UNCHANGED << rvars, avars, qvars, mvars, pvars >>

\* after the handshake: EOF only, or size the batch vector
SendDecide ==
    /\ spc = "decide"
    /\ IF NothingToSend(s_first, s_last)
       THEN /\ wire' = Append(wire, EofFrame)
            /\ spc' = "returned"
            /\ UNCHANGED buf_vec_size
       ELSE /\ buf_vec_size' = BatchSize(s_first, s_last)
            /\ spc' = "read"
            /\ UNCHANGED wire
    /\ UNCHANGED << s_first, s_last, s_preload_start, s_ver40,
                    n_read, s_i, s_errno, cache, s_arg_first, s_hs, ctrl >>
    /\ UNCHANGED << rvars, avars, qvars, mvars, pvars >>

\* the loop condition: n_read = seqno_get_buffers(buf_vec, first); when it
\* is not positive the loop ends and send() returns
SendRead ==
    /\ spc = "read"
    /\ \E n \in GetBuffers(cache, s_first, buf_vec_size) : n_read' = n
    /\ s_i' = 0
    /\ spc' = IF n_read' > 0 THEN "batch" ELSE "returned"
    /\ UNCHANGED << s_first, s_last, s_preload_start, s_ver40, buf_vec_size,
                    s_errno, cache, wire, s_arg_first, s_hs, ctrl >>
    /\ UNCHANGED << rvars, avars, qvars, mvars, pvars >>

\* one iteration of the for loop: send_ordered, send_eof at last; after the
\* last buffer of the batch first advances and the vector is resized.
\* type is the action type of the buffer buf_vec[i]
SendOrdered(type) ==
    /\ spc = "batch"
    /\ LET seqno_g == s_first + s_i
           frame == OrderedFrame(seqno_g, type,
                                 PreloadFlag(s_preload_start, seqno_g))
       IN IF seqno_g = s_last
          THEN /\ wire' = wire \o << frame, EofFrame >>
               /\ spc' = "returned"
               /\ UNCHANGED << s_first, s_i, buf_vec_size >>
          ELSE /\ wire' = Append(wire, frame)
               /\ IF s_i + 1 < n_read
                  THEN /\ s_i' = s_i + 1
                       /\ UNCHANGED << s_first, buf_vec_size, spc >>
                  ELSE /\ s_first' = AdvanceFirst(s_first, n_read)
                       /\ buf_vec_size' = BatchSize(s_first', s_last)
                       /\ s_i' = 0
                       /\ spc' = "read"
    /\ UNCHANGED << s_last, s_preload_start, s_ver40, n_read, s_errno, cache,
                    s_arg_first, s_hs, ctrl >>
    /\ UNCHANGED << rvars, avars, qvars, mvars, pvars >>

SNext ==
    \/ \E e \in {EINVAL, EPROTO, ECONNRESET} : SendThrow(e)
    \/ SendRecvHandshake
    \/ SendHandshakeResponse
    \/ \E c \in CtrlCodes : SendRecvCtrl(c)
    \/ SendDecide
    \/ SendRead
    \/ \E t \in ActTypes : SendOrdered(t)

SenderInit == RInit /\ SInit /\ AIdle /\ QInit /\ MInit /\ PInit
SenderSpec == SenderInit /\ [][SNext]_vars

(* ------------- AsyncSenderMap, run_async_sender ----------------------- *)

\* monitor_.enter() blocks while another thread holds the monitor
CanEnter(m) == m = Free

\* the monitor after the leave of a gu::Critical going out of scope
Leave(m) == Free

LeaveForJoin_Hold(m) == m
\* cancel(): monitor_.leave() before gu_thread_join
LeaveForJoin(m) == Free

Found_Always(set, a) == TRUE
\* remove(): senders_.find(as) != senders_.end()
Found(set, a) == a \in set

\* a use of *a: undefined once a was deleted
Use(a) == uaf' = (uaf \/ deleted[a] > 0)

\* run(): new AsyncSender, gu_thread_create, senders_.insert, all under
\* the monitor
ARun(a, last) ==
    /\ CanEnter(monitor_)
    /\ ~created[a]
    /\ created' = [ created EXCEPT ![a] = TRUE ]
    /\ as_last' = [ as_last EXCEPT ![a] = last ]
    /\ tpc' = [ tpc EXCEPT ![a] = "send" ]
    /\ senders_' = senders_ \cup {a}
    /\ monitor_' = Leave(Sup)
    /\ UNCHANGED << deleted, deleted_by, join_seqno, aclosed, detached,
                    joined, uaf, apc, acur, at_start >>
    /\ UNCHANGED << rvars, svars, qvars, mvars, pvars >>

\* run() when gu_thread_create fails: delete as and throw
ARunFail(a) ==
    /\ CanEnter(monitor_)
    /\ ~created[a]
    /\ created' = [ created EXCEPT ![a] = TRUE ]
    /\ deleted' = [ deleted EXCEPT ![a] = @ + 1 ]
    /\ deleted_by' = [ deleted_by EXCEPT ![a] = "run" ]
    /\ monitor_' = Leave(Sup)
    /\ UNCHANGED << senders_, as_last, tpc, join_seqno, aclosed, detached,
                    joined, uaf, apc, acur, at_start >>
    /\ UNCHANGED << rvars, svars, qvars, mvars, pvars >>

\* the task: as->send() returns or throws a gu::Exception; join_seqno
TaskSendEnd(a, outcome, e) ==
    /\ tpc[a] = "send"
    /\ join_seqno' = [ join_seqno EXCEPT
                          ![a] = JoinSeqno(outcome, as_last[a], e) ]
    /\ tpc' = [ tpc EXCEPT ![a] = "remove" ]
    /\ Use(a)
    /\ UNCHANGED << senders_, monitor_, created, as_last, deleted,
                    deleted_by, aclosed, detached, joined, apc, acur,
                    at_start >>
    /\ UNCHANGED << rvars, svars, qvars, mvars, pvars >>

\* the task: as->asmap().remove(as, join_seqno) enters the monitor
TaskEnterRemove(a) ==
    /\ tpc[a] = "remove"
    /\ CanEnter(monitor_)
    /\ monitor_' = Task(a)
    /\ tpc' = [ tpc EXCEPT ![a] = "erase" ]
    /\ Use(a)
    /\ UNCHANGED << senders_, created, as_last, deleted, deleted_by,
                    join_seqno, aclosed, detached, joined, apc, acur,
                    at_start >>
    /\ UNCHANGED << rvars, svars, qvars, mvars, pvars >>

\* remove() under the monitor: erase the sender, or throw gu::NotFound,
\* which the task catches and ends on
TaskErase(a) ==
    /\ tpc[a] = "erase"
    /\ IF Found(senders_, a)
       THEN /\ senders_' = senders_ \ {a}
            /\ tpc' = [ tpc EXCEPT ![a] = "detach" ]
       ELSE /\ tpc' = [ tpc EXCEPT ![a] = "done" ]
            /\ UNCHANGED senders_
    /\ monitor_' = Leave(monitor_)
    /\ UNCHANGED << created, as_last, deleted, deleted_by, join_seqno,
                    aclosed, detached, joined, uaf, apc, acur, at_start >>
    /\ UNCHANGED << rvars, svars, qvars, mvars, pvars >>

\* the task: gu_thread_detach(as->thread())
TaskDetach(a) ==
    /\ tpc[a] = "detach"
    /\ detached' = [ detached EXCEPT ![a] = TRUE ]
    /\ tpc' = [ tpc EXCEPT ![a] = "delete" ]
    /\ Use(a)
    /\ UNCHANGED << senders_, monitor_, created, as_last, deleted,
                    deleted_by, join_seqno, aclosed, joined, apc, acur,
                    at_start >>
    /\ UNCHANGED << rvars, svars, qvars, mvars, pvars >>

\* the task: delete as, then return
TaskDelete(a) ==
    /\ tpc[a] = "delete"
    /\ deleted' = [ deleted EXCEPT ![a] = @ + 1 ]
    /\ deleted_by' = [ deleted_by EXCEPT ![a] = "task" ]
    /\ tpc' = [ tpc EXCEPT ![a] = "done" ]
    /\ Use(a)
    /\ UNCHANGED << senders_, monitor_, created, as_last, join_seqno,
                    aclosed, detached, joined, apc, acur, at_start >>
    /\ UNCHANGED << rvars, svars, qvars, mvars, pvars >>

\* cancel(): gu::Critical crit(monitor_)
CancelEnter ==
    /\ apc = "idle"
    /\ CanEnter(monitor_)
    /\ monitor_' = Sup
    /\ apc' = "loop"
    /\ at_start' = senders_
    /\ UNCHANGED << senders_, created, as_last, deleted, deleted_by, tpc,
                    join_seqno, aclosed, detached, joined, uaf, acur >>
    /\ UNCHANGED << rvars, svars, qvars, mvars, pvars >>

\* cancel(): the loop is over, the monitor is left on return
CancelReturn ==
    /\ apc = "loop"
    /\ senders_ = {}
    /\ monitor_' = Leave(monitor_)
    /\ apc' = "idle"
    /\ acur' = 0
    /\ UNCHANGED << senders_, created, as_last, deleted, deleted_by, tpc,
                    join_seqno, aclosed, detached, joined, uaf, at_start >>
    /\ UNCHANGED << rvars, svars, qvars, mvars, pvars >>

\* cancel(): as = *senders_.begin(), erase it, as->cancel(),
\* monitor_.leave()
CancelTake(a) ==
    /\ apc = "loop"
    /\ a \in senders_
    /\ senders_' = senders_ \ {a}
    /\ acur' = a
    /\ aclosed' = [ aclosed EXCEPT ![a] = TRUE ]
    /\ monitor_' = LeaveForJoin(monitor_)
    /\ apc' = "join"
    /\ Use(a)
    /\ UNCHANGED << created, as_last, deleted, deleted_by, tpc, join_seqno,
                    detached, joined, at_start >>
    /\ UNCHANGED << rvars, svars, qvars, mvars, pvars >>

\* cancel(): gu_thread_join(as->thread_) returns when the task has ended
CancelJoin ==
    /\ apc = "join"
    /\ tpc[acur] = "done"
    /\ joined' = [ joined EXCEPT ![acur] = TRUE ]
    /\ apc' = "enter"
    /\ Use(acur)
    /\ UNCHANGED << senders_, monitor_, created, as_last, deleted,
                    deleted_by, tpc, join_seqno, aclosed, detached, acur,
                    at_start >>
    /\ UNCHANGED << rvars, svars, qvars, mvars, pvars >>

\* cancel(): monitor_.enter()
CancelReenter ==
    /\ apc = "enter"
    /\ CanEnter(monitor_)
    /\ monitor_' = Sup
    /\ apc' = "delete"
    /\ UNCHANGED << senders_, created, as_last, deleted, deleted_by, tpc,
                    join_seqno, aclosed, detached, joined, uaf, acur,
                    at_start >>
    /\ UNCHANGED << rvars, svars, qvars, mvars, pvars >>

\* cancel(): delete as
CancelDelete ==
    /\ apc = "delete"
    /\ deleted' = [ deleted EXCEPT ![acur] = @ + 1 ]
    /\ deleted_by' = [ deleted_by EXCEPT ![acur] = "cancel" ]
    /\ apc' = "loop"
    /\ Use(acur)
    /\ UNCHANGED << senders_, monitor_, created, as_last, tpc, join_seqno,
                    aclosed, detached, joined, acur, at_start >>
    /\ UNCHANGED << rvars, svars, qvars, mvars, pvars >>

ANext ==
    \/ \E a \in Ids, last \in {MaxSeq} : ARun(a, last)
    \/ \E a \in Ids : ARunFail(a)
    \/ \E a \in Ids, o \in {"returned", "threw"}, e \in {ECONNRESET} :
           TaskSendEnd(a, o, e)
    \/ \E a \in Ids : TaskEnterRemove(a)
    \/ \E a \in Ids : TaskErase(a)
    \/ \E a \in Ids : TaskDetach(a)
    \/ \E a \in Ids : TaskDelete(a)
    \/ CancelEnter
    \/ CancelReturn
    \/ \E a \in Ids : CancelTake(a)
    \/ CancelJoin
    \/ CancelReenter
    \/ CancelDelete

\* once cancel() closed its socket the I/O of send() fails and send() ends
TaskUnblocked(a) ==
    /\ aclosed[a]
    /\ \E o \in {"returned", "threw"}, e \in {ECONNRESET} :
           TaskSendEnd(a, o, e)

\* the threads are scheduled: a step that stays possible is taken
AFairness ==
    /\ \A a \in Ids : /\ WF_vars(TaskUnblocked(a))
                       /\ WF_vars(TaskEnterRemove(a))
                       /\ WF_vars(TaskErase(a))
                       /\ WF_vars(TaskDetach(a))
                       /\ WF_vars(TaskDelete(a))
    /\ WF_vars(CancelReturn)
    /\ WF_vars(\E a \in Ids : CancelTake(a))
    /\ WF_vars(CancelJoin)
    /\ WF_vars(CancelReenter)
    /\ WF_vars(CancelDelete)

AsyncInit == RInit /\ SIdle /\ AIdle /\ QInit /\ MInit /\ PInit
AsyncSpec == AsyncInit /\ [][ANext]_vars /\ AFairness

(* ============================ properties ============================== *)

Last(q) == q[Len(q)]
\* the seqnos first..last as a sequence (empty when last < first)
Range(first, last) == [ i \in 1..(last - first + 1) |-> first + i - 1 ]
DispatchedSeqnos == [ i \in 1..Len(dispatched) |-> dispatched[i].seqno_g ]
\* dispatched seqnos ascend with stride 1
Consecutive ==
    \A i \in 2..Len(dispatched) :
        dispatched[i].seqno_g = dispatched[i - 1].seqno_g + 1
\* the receive task of the session has called ist_end
Ended == ist_end_log # << >>
\* finished() was started before ready() while the receive task was alive
FinishedBeforeReady ==
    fin_at \in {"accept", "handshake", "wait"} /\ ready_arg = 0

\* C1: the dispatched seqnos ascend with stride exactly 1; while the session
\* streams, every frame read was dispatched; a frame that breaks the
\* sequence is not dispatched and the session leaves the streaming loop.
C1_StrideOne ==
    /\ Consecutive
    /\ (rpc = "stream" => nframes = Len(dispatched) /\ ~seq_violation)
    /\ (seq_violation => /\ rpc \in {"err", "end", "done", "none"}
                         /\ nframes = Len(dispatched) + 1)

C1_Witness ==
    /\ seq_violation /\ Ended
    /\ Len(dispatched) = 1 /\ nframes = 2

\* C2 (as claimed): a session that ends uninterrupted with ist_end(0) has
\* dispatched exactly f, f+1, ..., last for some f <= first_seqno, nothing
\* beyond last (stated for the sessions that expect frames, last > 0).
C2_Original ==
    (ist_end_log = << 0 >> /\ ~woke_interrupted /\ last_seqno_ > 0) =>
        \E f \in (-1)..(MaxSeq + 1) :
            /\ f <= first_seqno_
            /\ DispatchedSeqnos = Range(f, last_seqno_)

\* C2 (amended): a session that ends uninterrupted with ist_end(0) has
\* dispatched a gapless ascending run that starts at some f <= first_seqno
\* and, when last > 0, reaches at least last; frames beyond last are
\* dispatched too, and with last <= 0 the run may be empty.
C2_Amended ==
    (ist_end_log = << 0 >> /\ ~woke_interrupted) =>
        /\ Consecutive
        /\ (dispatched # << >> => dispatched[1].seqno_g <= first_seqno_)
        /\ (last_seqno_ > 0 =>
                /\ dispatched # << >>
                /\ Last(dispatched).seqno_g >= last_seqno_)

C2_Witness ==
    /\ ist_end_log = << 0 >> /\ ~woke_interrupted
    /\ Len(dispatched) = 2
    /\ last_seqno_ > 0
    /\ Last(dispatched).seqno_g = last_seqno_

\* C3: every dispatched frame carries must_apply = (seqno_g >= first), first
\* being the value given to ready() in the session; frames below first are
\* dispatched with must_apply = false.
C3_MustApply ==
    \A i \in 1..Len(dispatched) :
        /\ ready_arg > 0
        /\ dispatched[i].must_apply = (dispatched[i].seqno_g >= ready_arg)

C3_Witness ==
    /\ Len(dispatched) = 2
    /\ dispatched[1].seqno_g < ready_arg /\ ~dispatched[1].must_apply
    /\ dispatched[2].seqno_g = ready_arg /\ dispatched[2].must_apply

\* C4 (as claimed): on every path of the receive task ist_end is invoked
\* exactly once: a task that has ended has made exactly one ist_end call.
C4_Claim ==
    /\ Len(ist_end_log) <= 1
    /\ (rpc \in {"done", "crashed"} => Len(ist_end_log) = 1)

\* C5: no frame is read or dispatched before ready(first) was called in the
\* session: the task streams only after it saw ready_ under the mutex.
C5_ReadyBeforeDispatch ==
    /\ (rpc = "stream" => ready_ /\ ready_arg > 0)
    /\ (nframes > 0 => ready_arg > 0)
    /\ \A i \in 1..Len(dispatched) : dispatched[i].must_apply => ready_arg > 0

C5_Witness ==
    /\ rpc = "stream"
    /\ dispatched # << >> /\ Last(dispatched).must_apply
    /\ ready_ /\ ready_arg > 0

C7_Claim ==
    (seq_violation /\ Ended) => ist_end_log = << EINVAL >>

\* C8 (as claimed): finished() before ready() ends the receive task with
\* ist_end(EINTR) and without a dispatched frame (stated for the tasks that
\* end by the cancellation, not by an error of the donor's handshake).
C8_Original ==
    (FinishedBeforeReady /\ Ended /\ (conn = "loopback" \/ woke_interrupted)) =>
        /\ ist_end_log = << EINTR >>
        /\ dispatched = << >>

\* C8 (amended): finished() before ready() leaves the session without a
\* dispatched frame; ist_end gets EINTR when the task took the loopback
\* connection of interrupt(), and on the donor's connection 0 or EPROTO
\* after the interrupted wait, or the error of the handshake.
C8_Amended ==
    FinishedBeforeReady =>
        /\ dispatched = << >> /\ nframes = 0
        /\ (Ended /\ conn = "loopback" => ist_end_log = << EINTR >>)
        /\ (Ended /\ conn = "donor" /\ woke_interrupted =>
                ist_end_log \in {<< 0 >>, << EPROTO >>})
        /\ (Ended /\ conn = "donor" /\ ~woke_interrupted =>
                ist_end_log \in {<< ECONNRESET >>, << EPROTO >>})

C8_Witness ==
    /\ fin_at = "wait" /\ ready_arg = 0
    /\ woke_interrupted /\ conn = "donor"
    /\ Ended /\ ist_end_log[1] # EINTR
    /\ dispatched = << >>

\* C9 (as claimed): a task woken from the SST rendezvous with interrupted
\* calls ist_end with 0 or EINTR, never with another code.
C9_Claim ==
    (woke_interrupted /\ Ended) => ist_end_log[1] \in {0, EINTR}

(* ------------------------------ Sender -------------------------------- *)

\* send() was called with 0 < first <= last and the cache holds [first..last]
SendFullRange ==
    /\ 0 < s_arg_first /\ s_arg_first <= s_last
    /\ \A q \in s_arg_first..s_last : q \in cache

\* C10: under SendFullRange, without a failed handshake or transport error,
\* the frames written are the ORDERED frames first..last, each once and in
\* order, for every batch split, then one C_EOF and nothing after it.
C10_SendsRange ==
    SendFullRange =>
        /\ \A i \in 1..Len(wire) :
               IF i <= s_last - s_arg_first + 1
               THEN /\ wire[i].kind = "ORDERED"
                    /\ wire[i].seqno_g = s_arg_first + i - 1
               ELSE /\ wire[i] = EofFrame
                    /\ i = s_last - s_arg_first + 2
        /\ (spc = "returned" => Len(wire) = s_last - s_arg_first + 2)

C10_Witness ==
    /\ SendFullRange
    /\ spc = "returned"
    /\ s_arg_first = 1 /\ s_last = MaxSeq
    /\ Len(wire) = MaxSeq + 1
    /\ n_read = 1 /\ buf_vec_size = 1

\* send() was called with nothing to stream
CalledWithNothing ==
    s_arg_first > s_last \/ (s_arg_first = 0 /\ s_last = 0)

\* C11 (as claimed): send() with first > last, or first = last = 0, performs
\* the handshake, sends C_EOF only and returns without error (stated apart
\* from the errors of the handshake and of the transport).
C11_Original ==
    (CalledWithNothing /\ spc \in {"returned", "threw"}
                       /\ s_errno \notin {EPROTO, ECONNRESET}) =>
        (spc = "returned" /\ wire = << EofFrame >>)

\* C11 (amended): with first = last = 0, or with first > last at protocol
\* version VER40 or later, send() reads nothing from the cache, writes no
\* ORDERED frame and returns after the handshake with C_EOF as the only
\* frame; with first > last below VER40 it throws EINVAL before the
\* handshake and writes nothing.
C11_Amended ==
    CalledWithNothing =>
        /\ spc \notin {"read", "batch"} /\ n_read = 0 /\ buf_vec_size = 0
        /\ \A i \in 1..Len(wire) : wire[i] = EofFrame
        /\ (spc = "returned" => wire = << EofFrame >>)
        /\ (spc # "returned" => wire = << >>)
        /\ (s_arg_first > s_last /\ ~s_ver40 =>
                /\ spc \in {"handshake", "threw"}
                /\ (spc = "threw" => s_errno = EINVAL))
        /\ (spc = "threw" /\ s_errno = EINVAL =>
                s_arg_first > s_last /\ ~s_ver40)

C11_Witness ==
    /\ spc = "returned" /\ wire = << EofFrame >>
    /\ s_arg_first > s_last /\ s_ver40

\* the cache returned n_read <= 0 and ended the loop of send()
CacheRanShort == spc = "returned" /\ buf_vec_size > 0 /\ n_read = 0

\* C13 (as claimed): when the cache returns n_read <= 0 before the frame
\* last was sent, send() does not return normally and the sender task
\* reports a negative join_seqno.
C13_Claim ==
    CacheRanShort =>
        /\ spc # "returned"
        /\ JoinSeqno(spc, s_last, s_errno) < 0

\* the ORDERED frames written so far
OrderedIdx == { i \in 1..Len(wire) : wire[i].kind = "ORDERED" }

\* C14: over the ORDERED frames send() writes in one session the preload
\* flag never goes back from true to false, for every preload_start, range
\* and batch split; the flag of a frame is preload_start > 0 and
\* seqno_g >= preload_start.
C14_PreloadMonotone ==
    /\ \A i \in OrderedIdx, j \in OrderedIdx :
           (i < j /\ wire[i].preload) => wire[j].preload
    /\ \A i \in OrderedIdx :
           wire[i].preload =
               (s_preload_start > 0 /\ wire[i].seqno_g >= s_preload_start)

C14_Witness ==
    /\ spc = "returned" /\ Len(wire) = 4
    /\ ~wire[1].preload /\ wire[2].preload /\ wire[3].preload
    /\ wire[4] = EofFrame

(* ----------------------- Receiver, continued -------------------------- *)

\* the session read EOF as its first frame after ready(), with last <= 0
EofOnly ==
    /\ last_seqno_ <= 0 /\ ready_arg > 0 /\ conn = "donor"
    /\ nframes = 0 /\ ec = 0 /\ ~woke_interrupted
    /\ rpc \in {"err", "end", "done", "crashed"}

\* C12 (as claimed): a session with last <= 0 whose first frame after
\* ready() is EOF ends cleanly: the task reaches termination without fault,
\* dispatches nothing and calls ist_end(0).
C12_Claim ==
    EofOnly =>
        /\ rpc # "crashed"
        /\ dispatched = << >>
        /\ (rpc = "done" => ist_end_log = << 0 >>)

\* C15 (as claimed): finished() returns the seqno of the last frame the
\* session dispatched, for every way the session can end (stated for the
\* sessions the claim names last: aborted by a seqno gap after a dispatched
\* frame).
C15_Claim ==
    (finished_ret # << >> /\ dispatched # << >> /\ seq_violation) =>
        finished_ret[1] = Last(dispatched).seqno_g

\* C16 (as claimed): finished() before ready() returns UNDEFINED in every
\* prepare()/finished() cycle of a Receiver.
C16_Claim ==
    (FinishedBeforeReady /\ finished_ret # << >>) =>
        finished_ret[1] = WSREP_SEQNO_UNDEFINED

\* C17: the err label leaves error_code_ as it was when the task ends with
\* ec = EINTR and sets it to ec otherwise, and the ec it stored or skipped
\* is the value ist_end is then called with.
C17_ErrorCodeStored ==
    [][ /\ (rpc = "err" /\ rpc' = "end" =>
               IF ec' = EINTR
               THEN error_code_' = error_code_
               ELSE error_code_' = ec')
        /\ (Len(ist_end_log') = Len(ist_end_log) + 1 =>
               /\ Last(ist_end_log') = ec
               /\ error_code_' = error_code_
               /\ (ec # EINTR => error_code_ = ec)) ]_vars

C17_Witness ==
    /\ ist_end_log = << EINTR >>
    /\ error_code_ = ECONNRESET

\* accept() or the TLS handshake of the session failed
AcceptFailed == conn = "none" /\ rpc \notin {"none", "accept"}

\* C20 (as claimed): a failure of accept() or of the TLS handshake takes
\* the task to termination: the error stays in the task and ist_end is
\* invoked with its code.
C20_Claim ==
    AcceptFailed =>
        /\ rpc \in {"err", "end", "done"}
        /\ (rpc = "done" => Len(ist_end_log) = 1 /\ ist_end_log[1] # 0)

(* -------------------------- AsyncSenderMap ---------------------------- *)

\* the task of a ended on gu::NotFound: it neither detached nor deleted
EndedNotFound(a) == tpc[a] = "done" /\ ~detached[a]

\* C18: cancel() does not deadlock with sender tasks that remove
\* themselves: a cancel() in progress always returns (every join returns,
\* every re-entry of the monitor succeeds), and when it has returned the set
\* holds no sender that was in it when cancel() was entered.
C18_CancelTerminates ==
    /\ (apc # "idle") ~> (apc = "idle")
    /\ (apc = "join") ~> (apc = "enter")
    /\ [](apc = "idle" => senders_ \cap at_start = {})

C18_Witness ==
    /\ apc = "idle" /\ Cardinality(at_start) = 2
    /\ \E a \in at_start : EndedNotFound(a) /\ joined[a]
    /\ \E a \in at_start : detached[a] /\ deleted_by[a] = "task"

\* C19: every AsyncSender of a successful run() is deleted at most once and
\* not used after that; it is deleted by its task after a successful
\* self-removal (then detached and never joined), or by cancel() after the
\* erase and the join (then the task ended on NotFound without detach or
\* delete); a sender whose task has ended and that is not deleted yet is the
\* one cancel() holds between its join and its delete.
C19_DestroyedOnce ==
    /\ ~uaf
    /\ \A a \in Ids :
        /\ deleted[a] <= 1
        /\ ~(detached[a] /\ joined[a])
        /\ (deleted_by[a] = "task" =>
                /\ detached[a] /\ ~joined[a] /\ a \notin senders_
                /\ tpc[a] = "done")
        /\ (deleted_by[a] = "cancel" =>
                /\ joined[a] /\ EndedNotFound(a) /\ a \notin senders_)
        /\ (tpc[a] # "none" => deleted_by[a] # "run")
        /\ (tpc[a] = "done" /\ deleted[a] = 0 =>
                acur = a /\ apc \in {"join", "enter", "delete"})

C19_Witness ==
    /\ \A a \in Ids : tpc[a] = "done" /\ deleted[a] = 1
    /\ \E a \in Ids : deleted_by[a] = "task"
    /\ \E a \in Ids : deleted_by[a] = "cancel"

(* ------------------ Receiver: cancellation and reuse ------------------ *)

\* C25 (as claimed): when finished() is called in a prepared session in
\* which ready() is never called, the receive task ends and finished()
\* returns, wherever the task was when finished() started.
C25_Claim ==
    (InFinished /\ ready_arg = 0) ~> (cpc = "idle")

\* a step of the receive thread
ReceiveStep ==
    /\ rpc \in {"accept", "handshake", "wait", "stream", "err", "end"}
    /\ (rpc' # rpc \/ nframes' # nframes)

\* C26 (as claimed): the receive thread writes none of first_seqno_,
\* ready_, interrupted_ and running_.
C26_Original ==
    [][ ReceiveStep =>
            UNCHANGED << first_seqno_, ready_, interrupted_, running_ >> ]_vars

\* C26 (amended): the receive thread writes none of first_seqno_, ready_
\* and interrupted_; it writes running_ at the err label only, to false,
\* holding mutex_ from there to its return.
C26_Amended ==
    [][ ReceiveStep =>
            /\ UNCHANGED << first_seqno_, ready_, interrupted_ >>
            /\ (rpc # "err" => UNCHANGED running_)
            /\ (rpc = "err" => running_' = FALSE /\ ~MutexFree') ]_vars

C26_Witness ==
    /\ rpc = "end" /\ cpc = "idle" /\ prepared
    /\ ~running_ /\ ready_ /\ dispatched # << >>

\* C27 (as claimed): when ist_end is invoked the cache lock has been
\* released by exactly one seqno_unlock() call, the socket is closed and
\* running_ is false.
C27_Claim ==
    [][ Len(ist_end_log') = Len(ist_end_log) + 1 =>
            /\ seqno_unlocks = 1
            /\ ~socket_open
            /\ ~running_ ]_vars

\* C28 (as claimed): once the receive task of a session has called ist_end,
\* running_ is false until the next prepare().
C28_Claim ==
    (Ended /\ cpc # "prepare") => ~running_

\* C29 (as claimed): in a session in which ready() was called and finished()
\* was not, the receive task is not woken from the rendezvous as
\* interrupted: it goes on to stream.
C29_Claim ==
    (ready_arg > 0 /\ fin_at = "") => ~woke_interrupted

(* ------------------------- Sender: handshake -------------------------- *)

\* the first n calls of the handshake, in order
HandshakePrefix(n) == SubSeq(HandshakeOrder, 1, n)

\* C23: the Sender writes no ORDERED frame and no C_EOF before it has made
\* the three handshake calls in the order recv_handshake,
\* send_handshake_response, recv_ctrl and has read a non-negative control
\* code; when the code read is negative send() has thrown EPROTO and has
\* written nothing.
C23_HandshakeFirst ==
    /\ Len(s_hs) <= 3 /\ s_hs = HandshakePrefix(Len(s_hs))
    /\ (wire # << >> => s_hs = HandshakeOrder /\ ctrl >= 0)
    /\ (s_hs = HandshakeOrder /\ ctrl < 0 =>
            spc = "threw" /\ s_errno = EPROTO /\ wire = << >>)

\* frames were written after a handshake that read C_OK
C23_Witness ==
    /\ s_hs = HandshakeOrder /\ ctrl = 0
    /\ \E i \in 1..Len(wire) : wire[i].kind = "ORDERED"
    /\ wire[Len(wire)] = EofFrame

(* ------------- a Sender and a Receiver on one connection -------------- *)

\* Proto::recv_ordered returns the action send_ordered wrote: seqno_g,
\* type and the preload flag
RecvFrame(frame) ==
    [ kind |-> frame.kind, seqno_g |-> frame.seqno_g, type |-> frame.type,
      preload |-> frame.preload ]

\* the Receiver has read nframes frames: the next one it reads
NextFrame == RecvFrame(wire[nframes + 1])

\* the Receiver has accepted the donor and sent its handshake
SessSendRecvHandshake ==
    /\ rpc = "handshake" /\ conn = "donor"
    /\ SendRecvHandshake

\* the Receiver has the handshake response of the Sender
SessHandshakeOk ==
    /\ Len(s_hs) >= 2
    /\ HandshakeOk

\* the Sender reads the Ctrl::C_OK the Receiver sent after the handshake
SessSendRecvCtrl ==
    /\ rpc \in {"wait", "stream", "err", "end", "done"}
    /\ SendRecvCtrl(0)

\* recv_ordered returns the next frame of the stream, a data frame
SessRecvOrdered(how) ==
    /\ nframes < Len(wire)
    /\ NextFrame.kind = "ORDERED"
    /\ RecvOrdered(NextFrame.seqno_g, NextFrame.type, NextFrame.preload, how)

\* recv_ordered returns the next frame of the stream, the C_EOF
SessRecvEof ==
    /\ nframes < Len(wire)
    /\ NextFrame.kind = "C_EOF"
    /\ RecvEof

\* the joiner prepares for the range it asks the donor to send
SessPrepare(first) == Prepare(first, s_last)

SessionNext ==
    \/ \E first \in Seqnos : SessPrepare(first)
    \/ PrepareRunning
    \/ \E first \in Seqnos : Ready(first)
    \/ AcceptDonor
    \/ SessHandshakeOk
    \/ \E e \in {ECONNRESET} : HandshakeFail(e)
    \/ WaitSST
    \/ \E how \in {"ok", "unserialize", "handler"} : SessRecvOrdered(how)
    \/ SessRecvEof
    \/ \E e \in StreamErrnos : StreamError(e)
    \/ Terminate
    \/ IstEnd
    \/ \E e \in {EINVAL, EPROTO, ECONNRESET} : SendThrow(e)
    \/ SessSendRecvHandshake
    \/ SendHandshakeResponse
    \/ SessSendRecvCtrl
    \/ SendDecide
    \/ SendRead
    \/ \E t \in ActTypes : SendOrdered(t)

\* the donor of a VER40 session; its cache holds the seqnos up to some k
SessionInit ==
    /\ RInit /\ SInit /\ AIdle /\ QInit /\ MInit /\ PInit
    /\ s_ver40
    /\ \E k \in 0..MaxSeq : cache = 1..k
SessionSpec == SessionInit /\ [][SessionNext]_vars

IsOrdered(frame) == frame.kind = "ORDERED"
\* the frames the Sender has passed to send_ordered
SentOrdered == SelectSeq(wire, IsOrdered)

\* C24: with a Sender and a Receiver on one reliable in-order connection,
\* the (seqno_g, action type, preload flag) of the handler calls of the
\* Receiver are, in order, those of the first frames the Sender has passed
\* to send_ordered: the dispatched sequence is a prefix of the sent one.
C24_DispatchedPrefix ==
    /\ Len(dispatched) <= Len(SentOrdered)
    /\ \A i \in 1..Len(dispatched) :
          /\ dispatched[i].seqno_g = SentOrdered[i].seqno_g
          /\ dispatched[i].type = SentOrdered[i].type
          /\ dispatched[i].preload = SentOrdered[i].preload

\* a session that streamed two frames, one of them preloaded, and ended
\* with the C_EOF of the Sender
C24_Witness ==
    /\ rpc = "done" /\ spc = "returned" /\ ist_end_log = << 0 >>
    /\ Len(dispatched) = 2 /\ Len(SentOrdered) = 2
    /\ \E i \in 1..2 : dispatched[i].preload
    /\ \E i \in 1..2 : ~dispatched[i].preload

(* -------------------------- FairSendQueue ----------------------------- *)

Segments == 0..MaxSegment
DgLens == 0..MaxDgLen
\* a Datagram: id numbers the push_back calls, len is Datagram::len()
Datagram(id, len) == [ id |-> id, len |-> len ]

SetMin(S) == CHOOSE x \in S : \A y \in S : x <= y

\* empty(): no per-segment queue holds a datagram
QEmpty(q) == \A k \in DOMAIN q : q[k] = << >>

RECURSIVE QSizeOver(_, _)
QSizeOver(q, keys) ==
    IF keys = {} THEN 0
    ELSE LET k == SetMin(keys) IN Len(q[k]) + QSizeOver(q, keys \ {k})
\* size(): the sum of the sizes of the per-segment queues
QSize(q) == QSizeOver(q, DOMAIN q)

PushTo_Front(q, segment, dg) ==
    [ k \in DOMAIN q \cup {segment} |->
        IF k = segment
        THEN (IF k \in DOMAIN q THEN << dg >> \o q[k] ELSE << dg >>)
        ELSE q[k] ]
\* queue_[segment].push_back(dg): operator[] creates the entry it misses
PushTo(q, segment, dg) ==
    [ k \in DOMAIN q \cup {segment} |->
        IF k = segment
        THEN (IF k \in DOMAIN q THEN Append(q[k], dg) ELSE << dg >>)
        ELSE q[k] ]

\* queued_bytes_ += dg.len()
BytesAfterPush(bytes, len) == bytes + len

BytesAfterPop_Keep(bytes, len) == bytes
\* queued_bytes_ -= que.front().len()
BytesAfterPop(bytes, len) == bytes - len

CurrentAfterPush_Keep(cur, segment) == cur
\* if (current_segment_ == -1) current_segment_ = segment
CurrentAfterPush(cur, segment) == IF cur = NoSegment THEN segment ELSE cur

NextKey_Stay(keys, k) == k
\* ++i on the map iterator and the wrap-around to begin()
NextKey(keys, k) ==
    IF \E j \in keys : j > k
    THEN SetMin({ j \in keys : j > k })
    ELSE SetMin(keys)

\* the while loop of get_next_segment from iterator position i
RECURSIVE ScanFrom(_, _, _)
ScanFrom(q, cur, i) ==
    IF i # cur
    THEN IF q[i] # << >> THEN i ELSE ScanFrom(q, cur, NextKey(DOMAIN q, i))
    ELSE IF q[i] = << >> THEN NoSegment ELSE i

get_next_segment(q, cur) == ScanFrom(q, cur, NextKey(DOMAIN q, cur))

\* front() and back()
Front == Head(queue_[current_segment_])
Back == queue_[last_pushed_segment_][Len(queue_[last_pushed_segment_])]

\* the assertions of push_back that do not hold in the state
PushAsserts ==
    { l \in {38} : ~(current_segment_ # NoSegment \/ QEmpty(queue_)) }
    \cup { l \in {39} : ~(queued_bytes_ # 0 \/ QEmpty(queue_)) }

\* the assertions of front() that do not hold in the state
FrontAsserts ==
    { l \in {53} : current_segment_ = NoSegment }
    \cup { l \in {55} : current_segment_ \notin DOMAIN queue_ }

\* the assertions of pop_front and get_next_segment that do not hold
PopAsserts ==
    { l \in {71} : current_segment_ = NoSegment }
    \cup { l \in {72, 123} : \/ current_segment_ \notin DOMAIN queue_
                             \/ queue_[current_segment_] = << >> }
    \cup { l \in {74} : /\ current_segment_ \in DOMAIN queue_
                        /\ queue_[current_segment_] # << >>
                        /\ Front.len > queued_bytes_ }

\* push_back(segment, dg)
PushBack(segment, len) ==
    /\ q_pushed < MaxPushes
    /\ q_pushed' = q_pushed + 1
    /\ q_asserts' = q_asserts \cup PushAsserts
    /\ queue_' = PushTo(queue_, segment, Datagram(q_pushed', len))
    /\ current_segment_' = CurrentAfterPush(current_segment_, segment)
    /\ last_pushed_segment_' = segment
    /\ queued_bytes_' = BytesAfterPush(queued_bytes_, len)
    /\ q_in' = [ q_in EXCEPT ![segment] = Append(@, q_pushed') ]
    /\ UNCHANGED << q_popped, q_last_pop, q_out >>
    /\ UNCHANGED << rvars, svars, avars, mvars, pvars >>

\* pop_front() on a queue that is not empty. With a failed assertion the
\* build with assertions aborts, the call has no effect
PopFront ==
    /\ ~QEmpty(queue_)
    /\ q_asserts' = q_asserts \cup PopAsserts
    /\ IF PopAsserts # {}
       THEN UNCHANGED << queue_, current_segment_, queued_bytes_, q_popped,
                         q_last_pop, q_out >>
       ELSE /\ queued_bytes_' = BytesAfterPop(queued_bytes_, Front.len)
            /\ queue_' = [ queue_ EXCEPT ![current_segment_] = Tail(@) ]
            /\ current_segment_' = get_next_segment(queue_', current_segment_)
            /\ q_popped' = q_popped + 1
            /\ q_last_pop' = current_segment_
            /\ q_out' = [ q_out EXCEPT ![current_segment_] =
                                           Append(@, Front.id) ]
    /\ UNCHANGED << last_pushed_segment_, q_pushed, q_in >>
    /\ UNCHANGED << rvars, svars, avars, mvars, pvars >>

QNext ==
    \/ \E segment \in Segments, len \in DgLens : PushBack(segment, len)
    \/ PopFront

QueueInit == RInit /\ SIdle /\ AIdle /\ QInit /\ MInit /\ PInit
QueueSpec == QueueInit /\ [][QNext]_vars

\* the segments other than s that have a queued datagram
OtherSegments(q, s) == { k \in DOMAIN q : k # s /\ q[k] # << >> }

\* the segment served after s: the next one in ascending order, with
\* wrap-around, that has a queued datagram; s itself when there is no
\* other, NoSegment when nothing is queued
RoundRobinNext(q, s) ==
    LET others == OtherSegments(q, s)
        above == { k \in others : k > s }
    IN IF above # {} THEN SetMin(above)
       ELSE IF others # {} THEN SetMin(others)
       ELSE IF q[s] # << >> THEN s
       ELSE NoSegment

\* C21: after pop_front() has removed a datagram of segment s, the queue
\* serves the next segment after s in ascending id order, with
\* wrap-around, that has a non-empty queue, and front() is the head of its
\* queue; s is served again only when no other segment has a queued
\* datagram.
C21_RoundRobin ==
    [][ q_popped' = q_popped + 1 =>
          LET s == current_segment_ IN
          /\ current_segment_' = RoundRobinNext(queue_', s)
          /\ (current_segment_' = s => OtherSegments(queue_', s) = {})
          /\ (~QEmpty(queue_') =>
                 /\ current_segment_' \in DOMAIN queue_'
                 /\ queue_'[current_segment_'] # << >>
                 /\ Front' = Head(queue_'[RoundRobinNext(queue_', s)])) ]_vars

\* the last pop served segment 2 and the queue wrapped around to segment
\* 0, although segment 2 has more to send
C21_Witness ==
    /\ q_last_pop = 2 /\ current_segment_ = 0
    /\ 1 \in DOMAIN queue_ /\ 2 \in DOMAIN queue_
    /\ queue_[1] = << >> /\ queue_[2] # << >>

\* the assertions on current_segment_ in push_back, front, pop_front and
\* get_next_segment
CurrentSegmentAsserts == {38, 53, 55, 71, 72, 123}

\* C30: after any push_back and pop_front calls current_segment_ is -1
\* exactly when the queue is empty; when it is not -1 the queue of
\* current_segment_ exists and is not empty, and no assertion on
\* current_segment_ has failed or would fail in front().
C30_CurrentSegment ==
    /\ (current_segment_ = NoSegment) <=> QEmpty(queue_)
    /\ (current_segment_ # NoSegment =>
            /\ current_segment_ \in DOMAIN queue_
            /\ queue_[current_segment_] # << >>
            /\ FrontAsserts = {})
    /\ q_asserts \cap CurrentSegmentAsserts = {}

\* the queue ran empty, was filled again, and a pop left a segment with an
\* empty queue behind
C30_Witness ==
    /\ q_popped >= 2 /\ current_segment_ # NoSegment
    /\ QSize(queue_) = 1
    /\ \E k \in DOMAIN queue_ : queue_[k] = << >>

RECURSIVE SumLen(_)
\* the sum of len() over the datagrams of one per-segment queue
SumLen(que) == IF que = << >> THEN 0 ELSE Head(que).len + SumLen(Tail(que))

RECURSIVE BytesOver(_, _)
BytesOver(q, keys) ==
    IF keys = {} THEN 0
    ELSE LET k == SetMin(keys) IN SumLen(q[k]) + BytesOver(q, keys \ {k})
\* the sum of len() over all datagrams queued in all segments
QueuedLen(q) == BytesOver(q, DOMAIN q)

\* C31: after any push_back and pop_front calls queued_bytes_ is the sum
\* of len() over the datagrams queued in all segments: the subtraction in
\* pop_front does not go below zero (the assertion of line 74 holds), and
\* queued_bytes_ is 0 when the queue is empty.
C31_QueuedBytes ==
    /\ queued_bytes_ = QueuedLen(queue_)
    /\ queued_bytes_ >= 0
    /\ 74 \notin q_asserts /\ 74 \notin PopAsserts
    /\ (QEmpty(queue_) => queued_bytes_ = 0)

\* datagrams with bytes were popped, and two segments still hold bytes
C31_Witness ==
    /\ q_popped >= 1 /\ queued_bytes_ >= 2
    /\ \E k \in DOMAIN queue_ : q_out[k] # << >> /\ queue_[k] # << >>
    /\ \E j, k \in DOMAIN queue_ :
          j # k /\ SumLen(queue_[j]) > 0 /\ SumLen(queue_[k]) > 0

\* the ids of the datagrams of one per-segment queue, front first
QueuedIds(q, s) ==
    IF s \in DOMAIN q THEN [ i \in 1..Len(q[s]) |-> q[s][i].id ] ELSE << >>

\* C32: every datagram is delivered once and in FIFO order within its
\* segment: the datagrams pop_front removed from a segment are a prefix of
\* the datagrams pushed to it, in push order, the rest of them is what
\* the segment still queues, and size() is the number of push_back calls
\* minus the number of pop_front calls.
C32_FifoPerSegment ==
    /\ \A s \in Segments :
          /\ Len(q_out[s]) <= Len(q_in[s])
          /\ q_out[s] = SubSeq(q_in[s], 1, Len(q_out[s]))
          /\ q_in[s] = q_out[s] \o QueuedIds(queue_, s)
    /\ QSize(queue_) = q_pushed - q_popped

\* two datagrams of one segment were popped with a pop of another segment
\* in between, and the segment still queues one
C32_Witness ==
    \E s, t \in Segments :
        /\ s # t /\ Len(q_out[s]) = 2 /\ Len(q_out[t]) = 1
        /\ q_out[s][1] < q_out[t][1] /\ q_out[t][1] < q_out[s][2]
        /\ QueuedIds(queue_, s) # << >>

\* C33: whenever the queue is not empty, the per-segment queue of
\* last_pushed_segment_ is not empty, so that back() refers to a queued
\* datagram. Stated for the runs in which no assertion has failed.
C33_Claim ==
    (~QEmpty(queue_) /\ q_asserts = {}) =>
        /\ last_pushed_segment_ \in DOMAIN queue_
        /\ queue_[last_pushed_segment_] # << >>

(* ------------- gcache::MemStore as gcache_mem_test uses it ------------ *)

\* the request sizes of the test: 1 + bh_size and 2 + bh_size
ReqSizes == { 1 + bh_size, 2 + bh_size }
BufIds == 1..MaxBufs
\* the seqnos the test gives to a buffer
BufSeqnos == {1}

RECURSIVE SizeOver(_, _)
SizeOver(bufs, ids) ==
    IF ids = {} THEN 0
    ELSE LET b == SetMin(ids) IN bufs[b].size + SizeOver(bufs, ids \ {b})

\* MemStore::malloc finds room for size more bytes below max_size_
have_free_space(size) == ms_size + size <= mem_size

FreeReclaims_Always(seqno_g) == TRUE
\* MemStore::free discards the buffer at once when it has no seqno
FreeReclaims(seqno_g) == seqno_g = SEQNO_NONE

\* a buffer header after malloc: no seqno, not released
NewBuffer(size) ==
    [ size |-> size, seqno_g |-> SEQNO_NONE, released |-> FALSE,
      freed |-> FALSE, discarded |-> FALSE, live |-> TRUE ]

\* ms.malloc(size): NULL when the store has no room
MsMalloc(size) ==
    /\ ms_next <= MaxBufs
    /\ IF have_free_space(size)
       THEN /\ ms_bufs' = [ ms_bufs EXCEPT ![ms_next] = NewBuffer(size) ]
            /\ ms_size' = ms_size + size
            /\ ms_ret' = ms_next
            /\ ms_next' = ms_next + 1
       ELSE /\ ms_ret' = NullPtr
            /\ UNCHANGED << ms_bufs, ms_size, ms_next >>
    /\ ms_op' = << "malloc", size >>
    /\ UNCHANGED << rvars, svars, avars, qvars, pvars >>

\* ms.realloc(buf, size) of a buffer in use
MsRealloc(b, size) ==
    /\ ms_bufs[b].live /\ ~ms_bufs[b].released
    /\ size # ms_bufs[b].size
    /\ IF have_free_space(size - ms_bufs[b].size)
       THEN /\ ms_bufs' = [ ms_bufs EXCEPT ![b].size = size ]
            /\ ms_size' = ms_size + (size - ms_bufs[b].size)
            /\ ms_ret' = b
       ELSE /\ ms_ret' = NullPtr
            /\ UNCHANGED << ms_bufs, ms_size >>
    /\ ms_op' = << "realloc", b >>
    /\ UNCHANGED ms_next
    /\ UNCHANGED << rvars, svars, avars, qvars, pvars >>

\* bh->seqno_g = seqno
SetSeqno(b, seqno) ==
    /\ ms_bufs[b].live /\ ~ms_bufs[b].released
    /\ ms_bufs[b].seqno_g = SEQNO_NONE
    /\ ms_bufs' = [ ms_bufs EXCEPT ![b].seqno_g = seqno ]
    /\ ms_op' = << "seqno", b >>
    /\ UNCHANGED << ms_size, ms_ret, ms_next >>
    /\ UNCHANGED << rvars, svars, avars, qvars, pvars >>

\* BH_release(bh)
BH_release(b) ==
    /\ ms_bufs[b].live /\ ~ms_bufs[b].released
    /\ ms_bufs' = [ ms_bufs EXCEPT ![b].released = TRUE ]
    /\ ms_op' = << "release", b >>
    /\ UNCHANGED << ms_size, ms_ret, ms_next >>
    /\ UNCHANGED << rvars, svars, avars, qvars, pvars >>

\* ms.discard(bh): the space of the buffer goes back to the store
MsDiscard(b) ==
    /\ ms_bufs[b].live /\ ms_bufs[b].freed
    /\ ms_bufs' = [ ms_bufs EXCEPT ![b].live = FALSE, ![b].discarded = TRUE ]
    /\ ms_size' = ms_size - ms_bufs[b].size
    /\ ms_op' = << "discard", b >>
    /\ UNCHANGED << ms_ret, ms_next >>
    /\ UNCHANGED << rvars, svars, avars, qvars, pvars >>

\* ms.free(bh) of a released buffer
MsFree(b) ==
    /\ ms_bufs[b].live /\ ms_bufs[b].released /\ ~ms_bufs[b].freed
    /\ IF FreeReclaims(ms_bufs[b].seqno_g)
       THEN /\ ms_bufs' = [ ms_bufs EXCEPT ![b].live = FALSE,
                                           ![b].freed = TRUE ]
            /\ ms_size' = ms_size - ms_bufs[b].size
       ELSE /\ ms_bufs' = [ ms_bufs EXCEPT ![b].freed = TRUE ]
            /\ UNCHANGED ms_size
    /\ ms_op' = << "free", b >>
    /\ UNCHANGED << ms_ret, ms_next >>
    /\ UNCHANGED << rvars, svars, avars, qvars, pvars >>

MemNext ==
    \/ \E size \in ReqSizes : MsMalloc(size)
    \/ \E b \in BufIds, size \in ReqSizes : MsRealloc(b, size)
    \/ \E b \in BufIds, seqno \in BufSeqnos : SetSeqno(b, seqno)
    \/ \E b \in BufIds : BH_release(b)
    \/ \E b \in BufIds : MsFree(b)
    \/ \E b \in BufIds : MsDiscard(b)

MemInit == RInit /\ SIdle /\ AIdle /\ QInit /\ MInit /\ PInit
MemSpec == MemInit /\ [][MemNext]_vars

\* ms._allocd(): the store holds a buffer
Allocd == \E b \in BufIds : ms_bufs[b].live

\* the buffers whose space the claim counts as occupied: allocated, and
\* neither freed without a seqno nor discarded
Occupying(bufs) ==
    { b \in BufIds : /\ bufs[b].size > 0
                     /\ ~bufs[b].discarded
                     /\ ~(bufs[b].freed /\ bufs[b].seqno_g = SEQNO_NONE) }
Occupied(bufs) == SizeOver(bufs, Occupying(bufs))

\* C22: free() reclaims the space of a buffer exactly when the buffer has
\* no seqno (seqno_g = SEQNO_NONE); free() of a released buffer with a
\* seqno leaves it released and its space occupied, so that a malloc which
\* needs that space returns NULL, until discard() is called on the buffer,
\* which gives the space back.
C22_FreeAndDiscard ==
    [][ /\ \A b \in BufIds :
            /\ (ms_op' = << "free", b >> /\ ~ms_bufs[b].freed =>
                  IF ms_bufs[b].seqno_g = SEQNO_NONE
                  THEN ms_size' = ms_size - ms_bufs[b].size
                  ELSE /\ ms_size' = ms_size
                       /\ ms_bufs'[b].released /\ ms_bufs'[b].live)
            /\ (ms_op' = << "discard", b >> /\ ~ms_bufs[b].discarded =>
                  ms_size' = ms_size - ms_bufs[b].size)
        /\ \A size \in ReqSizes :
            (ms_op' = << "malloc", size >> =>
                (ms_ret' = NullPtr <=> Occupied(ms_bufs) + size > mem_size)) ]_vars

\* the test at its line 53: buf2 has seqno 1 and was released and freed,
\* buf1 is in use with 2 + bh_size bytes, and the malloc of 1 + bh_size
\* bytes returned NULL
C22_Witness ==
    /\ ms_op = << "malloc", 1 + bh_size >> /\ ms_ret = NullPtr
    /\ ms_bufs[1].live /\ ~ms_bufs[1].released
    /\ ms_bufs[1].size = 2 + bh_size
    /\ ms_bufs[2].seqno_g = 1 /\ ms_bufs[2].released /\ ms_bufs[2].freed
    /\ ms_bufs[2].live
    /\ 1 + bh_size <= mem_size - ms_bufs[1].size
    /\ Allocd

(* ----------------- gcomm PCMessage (pc_message.hpp) ------------------- *)

PcVersions == {0, 1}
PcTypes == {T_NONE, T_STATE, T_INSTALL, T_USER}
\* sequence numbers around the range of uint16_t
PcSeqs == {0, 1, TwoTo16 - 1, TwoTo16, TwoTo16 + 1, 3 * TwoTo16 + 5}
Uuids == 1..MaxInsts
ViewIds == {1, 2}
\* PCInst(last_seq, last_prim, to_seq)
PCInst(last_seq, last_prim, to_seq) ==
    [ last_seq |-> last_seq, last_prim |-> last_prim, to_seq |-> to_seq ]
PcInsts == { PCInst(7, v, 5) : v \in ViewIds }
\* write() is called with these offsets
PcOffsets == {0, 3}

\* PCMessage(): version -1, T_NONE, seq 0, no instance map
PCMessageDefault ==
    [ version |-> -1, type |-> T_NONE, seq |-> 0, has |-> FALSE, map |-> << >> ]

\* PCMessage(version, type, seq): T_STATE and T_INSTALL get an empty map
PCMessage(version, type, seq) ==
    [ version |-> version, type |-> type, seq |-> seq,
      has |-> (type = T_STATE \/ type = T_INSTALL), map |-> << >> ]

\* PCUserMessage(seq) : PCMessage(0, PCMessage::T_USER, 0)
PCUserMessage(seq) == PCMessage(0, T_USER, 0)

\* uint16_t get_seq() const { return seq; }
get_seq(m) == m.seq % TwoTo16

\* InstMap::insert
MapInsert(map, uuid, inst) ==
    [ u \in DOMAIN map \cup {uuid} |-> IF u = uuid THEN inst ELSE map[u] ]

\* sizes in bytes
\* sizeof the encoding of a ViewId and of a UUID, scaled down
ViewIdSize == 1
UuidSize == 1
PCInstSize == 4 + ViewIdSize + 8
InstMapSize(map) == 4 + Cardinality(DOMAIN map) * (UuidSize + PCInstSize)
\* PCMessage::size()
PCMessageSize(m) == 4 + 4 + (IF m.has THEN InstMapSize(m.map) ELSE 0)

\* the bytes of an unsigned integer of n bytes, lowest first
RECURSIVE UBytes(_, _)
UBytes(v, n) == IF n = 0 THEN << >> ELSE << v % 256 >> \o UBytes(v \div 256, n - 1)
\* the unsigned integer of n bytes at offset off of buf
RECURSIVE UValue(_, _, _)
UValue(buf, off, n) ==
    IF n = 0 THEN 0 ELSE buf[off + 1] + 256 * UValue(buf, off + 1, n - 1)

\* gcomm::write of n bytes at st.off: 0 when the buffer is too short
WriteBytes(st, buflen, bytes) ==
    IF st.off + Len(bytes) > buflen
    THEN [ buf |-> st.buf, off |-> 0 ]
    ELSE [ buf |-> [ i \in 1..Len(st.buf) |->
                       IF i > st.off /\ i <= st.off + Len(bytes)
                       THEN bytes[i - st.off] ELSE st.buf[i] ],
           off |-> st.off + Len(bytes) ]
\* gcomm::read of n bytes at off: 0 when the buffer is too short
ReadBytes(buf, buflen, off, n) ==
    IF off + n > buflen
    THEN [ off |-> 0, val |-> 0 ]
    ELSE [ off |-> off + n, val |-> UValue(buf, off, n) ]

\* PCInst::write: last_seq, last_prim, to_seq
PCInstWrite(st, buflen, inst) ==
    LET a == WriteBytes(st, buflen, UBytes(inst.last_seq, 4)) IN
    IF a.off = 0 THEN a ELSE
    LET b == WriteBytes(a, buflen, UBytes(inst.last_prim, ViewIdSize)) IN
    IF b.off = 0 THEN b ELSE
    WriteBytes(b, buflen, UBytes(inst.to_seq, 8))

\* PCInst::read: last_seq, last_prim, to_seq
PCInstRead(buf, buflen, off) ==
    LET a == ReadBytes(buf, buflen, off, 4) IN
    IF a.off = 0 THEN [ off |-> 0, val |-> PCInst(0, 0, 0) ] ELSE
    LET b == ReadBytes(buf, buflen, a.off, ViewIdSize) IN
    IF b.off = 0 THEN [ off |-> 0, val |-> PCInst(a.val, 0, 0) ] ELSE
    LET c == ReadBytes(buf, buflen, b.off, 8) IN
    [ off |-> c.off, val |-> PCInst(a.val, b.val, c.val) ]

\* InstMap::write: the entries in the order of their UUIDs
RECURSIVE MapWriteEntries(_, _, _, _)
MapWriteEntries(st, buflen, map, uuids) ==
    IF uuids = {} THEN st ELSE
    LET u == CHOOSE x \in uuids : \A y \in uuids : x <= y
        a == WriteBytes(st, buflen, UBytes(u, UuidSize)) IN
    IF a.off = 0 THEN a ELSE
    LET b == PCInstWrite(a, buflen, map[u]) IN
    IF b.off = 0 THEN b ELSE MapWriteEntries(b, buflen, map, uuids \ {u})
\* InstMap::write: the number of entries, then the entries
MapWrite(st, buflen, map) ==
    LET a == WriteBytes(st, buflen, UBytes(Cardinality(DOMAIN map), 4)) IN
    IF a.off = 0 THEN a ELSE MapWriteEntries(a, buflen, map, DOMAIN map)

\* InstMap::read: n more entries from off into map
RECURSIVE MapReadEntries(_, _, _, _, _)
MapReadEntries(buf, buflen, off, n, map) ==
    IF n = 0 THEN [ off |-> off, val |-> map ] ELSE
    LET a == ReadBytes(buf, buflen, off, UuidSize) IN
    IF a.off = 0 THEN [ off |-> 0, val |-> map ] ELSE
    LET b == PCInstRead(buf, buflen, a.off) IN
    IF b.off = 0 THEN [ off |-> 0, val |-> map ] ELSE
    MapReadEntries(buf, buflen, b.off, n - 1, MapInsert(map, a.val, b.val))
MapRead(buf, buflen, off) ==
    LET a == ReadBytes(buf, buflen, off, 4) IN
    IF a.off = 0 THEN [ off |-> 0, val |-> << >> ]
    ELSE MapReadEntries(buf, buflen, a.off, a.val, << >>)

\* b = type & 0xff; b <<= 8; b |= version & 0xff
PackHeader(version, type) == ((type % 256) * 256) + (version % 256)
\* version = b & 0xff
UnpackVersion(b) == b % 256
UnpackType_Low(b) == b % 256
\* type = (b >> 8) & 0xff
UnpackType(b) == (b \div 256) % 256

\* PCMessage::write
PCWrite(m, buf, buflen, offset) ==
    LET a == WriteBytes([ buf |-> buf, off |-> offset ], buflen,
                        UBytes(PackHeader(m.version, m.type), 4)) IN
    IF a.off = 0 THEN a ELSE
    LET b == WriteBytes(a, buflen, UBytes(m.seq, 4)) IN
    IF b.off = 0 THEN b ELSE
    IF m.has THEN MapWrite(b, buflen, m.map) ELSE b

\* PCMessage::read into the message m
PCRead(m, buf, buflen, offset) ==
    LET m0 == [ m EXCEPT !.has = FALSE, !.map = << >> ]
        a == ReadBytes(buf, buflen, offset, 4) IN
    IF a.off = 0 THEN [ off |-> 0, msg |-> m0 ] ELSE
    LET m1 == [ m0 EXCEPT !.version = UnpackVersion(a.val),
                          !.type = UnpackType(a.val) ] IN
    IF m1.version # 0 THEN [ off |-> 0, msg |-> m1 ] ELSE
    IF m1.type <= T_NONE \/ m1.type > T_USER THEN [ off |-> 0, msg |-> m1 ] ELSE
    LET b == ReadBytes(buf, buflen, a.off, 4) IN
    IF b.off = 0 THEN [ off |-> 0, msg |-> m1 ] ELSE
    LET m2 == [ m1 EXCEPT !.seq = b.val ] IN
    IF m2.type = T_STATE \/ m2.type = T_INSTALL
    THEN LET c == MapRead(buf, buflen, b.off)
         IN [ off |-> c.off, msg |-> [ m2 EXCEPT !.has = TRUE, !.map = c.val ] ]
    ELSE [ off |-> b.off, msg |-> m2 ]

\* operator==(const PCMessage&, const PCMessage&): "throw" is the
\* FatalException for messages of which only one has an instance map
PCEqual(a, b) ==
    IF a.version = b.version /\ a.type = b.type /\ get_seq(a) = get_seq(b)
    THEN IF a.has # b.has THEN "throw"
         ELSE IF a.has THEN (IF a.map = b.map THEN "true" ELSE "false")
         ELSE "true"
    ELSE "false"

\* PCMessage m(version, type, seq)
PcNew(version, type, seq) ==
    /\ pm_pc = "none"
    /\ pm_msg' = PCMessage(version, type, seq)
    /\ pm_arg_seq' = seq
    /\ pm_pc' = "built"
    /\ UNCHANGED << pm_buf, pm_buflen, pm_offset, pm_woff, pm_got, pm_roff >>
    /\ UNCHANGED << rvars, svars, avars, qvars, mvars >>

\* PCUserMessage m(seq)
PcNewUser(seq) ==
    /\ pm_pc = "none"
    /\ pm_msg' = PCUserMessage(seq)
    /\ pm_arg_seq' = seq
    /\ pm_pc' = "built"
    /\ UNCHANGED << pm_buf, pm_buflen, pm_offset, pm_woff, pm_got, pm_roff >>
    /\ UNCHANGED << rvars, svars, avars, qvars, mvars >>

\* m.get_inst_map().insert(uuid, inst)
PcInsert(uuid, inst) ==
    /\ pm_pc = "built"
    /\ pm_msg.has
    /\ uuid \notin DOMAIN pm_msg.map
    /\ pm_msg' = [ pm_msg EXCEPT !.map = MapInsert(@, uuid, inst) ]
    /\ UNCHANGED << pm_arg_seq, pm_pc, pm_buf, pm_buflen, pm_offset, pm_woff,
                    pm_got, pm_roff >>
    /\ UNCHANGED << rvars, svars, avars, qvars, mvars >>

\* m.write(buf, buflen, offset) into a zeroed buffer that has room for the
\* message, or one byte less
PcWrite(offset, short) ==
    /\ pm_pc = "built"
    /\ pm_offset' = offset
    /\ pm_buflen' = offset + PCMessageSize(pm_msg) - (IF short THEN 1 ELSE 0)
    /\ LET st == PCWrite(pm_msg, [ i \in 1..pm_buflen' |-> 0 ], pm_buflen',
                         offset)
       IN pm_buf' = st.buf /\ pm_woff' = st.off
    /\ pm_pc' = "written"
    /\ UNCHANGED << pm_msg, pm_arg_seq, pm_got, pm_roff >>
    /\ UNCHANGED << rvars, svars, avars, qvars, mvars >>

\* PCMessage got; got.read(buf, buflen, offset) of the bytes a write that
\* succeeded produced
PcRead ==
    /\ pm_pc = "written"
    /\ pm_woff # 0
    /\ LET r == PCRead(PCMessageDefault, pm_buf, pm_buflen, pm_offset)
       IN pm_got' = r.msg /\ pm_roff' = r.off
    /\ pm_pc' = "read"
    /\ UNCHANGED << pm_msg, pm_arg_seq, pm_buf, pm_buflen, pm_offset, pm_woff >>
    /\ UNCHANGED << rvars, svars, avars, qvars, mvars >>

PcNext ==
    \/ \E version \in PcVersions, type \in PcTypes, seq \in PcSeqs :
          PcNew(version, type, seq)
    \/ \E seq \in PcSeqs : PcNewUser(seq)
    \/ \E uuid \in Uuids, inst \in PcInsts : PcInsert(uuid, inst)
    \/ \E offset \in PcOffsets, short \in BOOLEAN : PcWrite(offset, short)
    \/ PcRead

PcInit == RInit /\ SIdle /\ AIdle /\ QInit /\ MInit /\ PInit
PcSpec == PcInit /\ [][PcNext]_vars

\* C34: for every PCMessage m with version 0 and a type of T_STATE,
\* T_INSTALL or T_USER, reading the bytes that m.write() produced into
\* another PCMessage succeeds with the end offset of the write, and the
\* message read is equal to m under operator==: it has the version, type,
\* seq and instance map of m.
C34_RoundTrip ==
    (/\ pm_pc = "read"
     /\ pm_msg.version = 0
     /\ pm_msg.type \in {T_STATE, T_INSTALL, T_USER}) =>
        /\ pm_roff # 0 /\ pm_roff = pm_woff
        /\ PCEqual(pm_got, pm_msg) = "true"
        /\ pm_got.version = pm_msg.version /\ pm_got.type = pm_msg.type
        /\ pm_got.seq = pm_msg.seq
        /\ pm_got.has = pm_msg.has /\ pm_got.map = pm_msg.map

\* a T_STATE message with a seq above the range of uint16_t and two
\* instances, written at an offset and read back
C34_Witness ==
    /\ pm_pc = "read" /\ pm_msg.version = 0 /\ pm_msg.type = T_STATE
    /\ pm_msg.seq > TwoTo16 /\ pm_offset > 0
    /\ Cardinality(DOMAIN pm_msg.map) = 2
    /\ pm_roff = pm_offset + PCMessageSize(pm_msg)

\* C35: a PCMessage built with the sequence number s, through
\* PCMessage(version, type, s) or through PCUserMessage(s), reports
\* get_seq() = s, for every 32-bit s.
C35_Claim ==
    pm_pc # "none" => get_seq(pm_msg) = pm_arg_seq

====
